---- MODULE Spec2Model ----
(***************************************************************************)
(* Model of the metaculus-forecasting-bot building blocks:                 *)
(*   - src/utils.py            text trimming and loose dictionary recovery *)
(*   - src/metaculus.py        upload_predictions and the platform client  *)
(*   - DetailsPreparation      question-detail unification                 *)
(*   - Forecaster              fetch / parse of the forecast response      *)
(*   - AskNewsFetcher          the two news response slots                 *)
(*                                                                         *)
(* Text is modelled as a sequence of lexical tokens (records with a field  *)
(* t): braces, prose, the "answer_dictionary" marker, dictionary keys and  *)
(* key/value pairs.  Python's str.find / str.rfind / slicing and eval are  *)
(* computed on those sequences the way the interpreter computes them on    *)
(* characters.  Floats are carried in hundredths (0.75 is 75).             *)
(***************************************************************************)
EXTENDS Integers, Sequences, FiniteSets, TLC

\* ------------------------------------------------------------------ bounds
\* longest question-id list handed to a constructor or to upload_predictions
MaxIds == 2
\* most full pages of questions on the platform when a manager is constructed
MaxPages == 2
\* most questions published while one update_store call runs
MaxNew == 1
\* most different URLs in the backgrounds of one processor's questions
MaxUrls == 2
\* most make_logger calls on one factory
MaxLoggerCalls == 3
\* most key/value pairs inside one nested dictionary of a model output
MaxEntries == 2
\* most completion requests one object sends in a behaviour
MaxCalls == 2

\* the absent value (Python None)
None == [ty |-> "None"]

\* ------------------------------------------------------------ Python text
Min(a, b) == IF a < b THEN a ELSE b
Max(a, b) == IF a > b THEN a ELSE b

\* str.find on tokens: 0-based index of the first token of kind t, or -1
PyFind(s, t) ==
    IF \E i \in 1..Len(s) : s[i].t = t
    THEN (CHOOSE i \in 1..Len(s) : s[i].t = t /\ \A j \in 1..(i-1) : s[j].t # t) - 1
    ELSE -1

\* str.rfind on tokens: 0-based index of the last token of kind t, or -1
PyRFind(s, t) ==
    IF \E i \in 1..Len(s) : s[i].t = t
    THEN (CHOOSE i \in 1..Len(s) : s[i].t = t /\ \A j \in (i+1)..Len(s) : s[j].t # t) - 1
    ELSE -1

\* s[i:j] with Python's treatment of negative and out-of-range indices
PyIndex(n, i) == IF i < 0 THEN Max(n + i, 0) ELSE Min(i, n)
PySlice(s, i, j) ==
    LET a == PyIndex(Len(s), i)
        b == PyIndex(Len(s), j)
    IN IF a < b THEN SubSeq(s, a + 1, b) ELSE <<>>

\* s[i:]
PySliceFrom(s, i) == PySlice(s, i, Len(s))

\* utils.trim_beginning_of_string(input_string, delimiter)
trim_beginning_of_string(input_string, delimiter) ==
    LET start_index == PyFind(input_string, delimiter)
    IN IF start_index = -1 THEN input_string
       ELSE PySliceFrom(input_string, start_index)

\* utils.find_first_and_last_braces
find_first_and_last_braces(s) == <<PyFind(s, "lb"), PyRFind(s, "rb")>>

\* --------------------------------------------------------- Python values
\* A dict is [ty |-> "dict", items |-> sequence of [k, v]] with distinct
\* keys in insertion order; a later duplicate key replaces the value.
DictPut(items, k, v) ==
    IF \E i \in 1..Len(items) : items[i].k = k
    THEN [i \in 1..Len(items) |->
            IF items[i].k = k THEN [k |-> k, v |-> v] ELSE items[i]]
    ELSE Append(items, [k |-> k, v |-> v])

DictHas(d, k) == d.ty = "dict" /\ \E i \in 1..Len(d.items) : d.items[i].k = k
DictGet(d, k) == (CHOOSE i \in 1..Len(d.items) : d.items[i].k = k)
DictVal(d, k) == d.items[DictGet(d, k)].v
DictKeys(d) == {d.items[i].k : i \in 1..Len(d.items)}
MkDict(items) == [ty |-> "dict", items |-> items]

\* literals: a str, an int, a float (in hundredths)
StrKey(s) == [ty |-> "str", s |-> s]
IntKey(n) == [ty |-> "int", n |-> n]
StrVal(s) == [ty |-> "str", s |-> s]
NumVal(n) == [ty |-> "float", n |-> n]

\* int(x): [ok, val]; an int is itself, a str is parsed as a decimal
DecimalInts == ("1" :> 1) @@ ("2" :> 2)
PyInt(x) ==
    IF x.ty = "int" THEN [ok |-> TRUE, val |-> x.n]
    ELSE IF x.ty = "str" /\ x.s \in DOMAIN DecimalInts
         THEN [ok |-> TRUE, val |-> DecimalInts[x.s]]
    ELSE [ok |-> FALSE]

\* float(x): [ok, val in hundredths]; a float is itself, a str is parsed
DecimalFloats == ("0.5" :> 50) @@ ("1.5" :> 150)
PyFloat(x) ==
    IF x.ty = "float" THEN [ok |-> TRUE, val |-> x.n]
    ELSE IF x.ty = "str" /\ x.s \in DOMAIN DecimalFloats
         THEN [ok |-> TRUE, val |-> DecimalFloats[x.s]]
    ELSE [ok |-> FALSE]

EvalFail == [ok |-> FALSE]

\* items of a dict display from position i up to its closing brace
RECURSIVE ParseItems(_, _, _)
ParseItems(s, i, acc) ==
    IF i > Len(s) THEN EvalFail
    ELSE IF s[i].t = "rb" THEN [ok |-> TRUE, val |-> acc, next |-> i + 1]
    ELSE IF s[i].t = "kv" THEN ParseItems(s, i + 1, DictPut(acc, s[i].k, s[i].v))
    ELSE IF s[i].t = "key" THEN
        IF i + 1 <= Len(s) /\ s[i + 1].t = "lb"
        THEN LET sub == ParseItems(s, i + 2, <<>>)
             IN IF sub.ok
                THEN ParseItems(s, sub.next, DictPut(acc, s[i].k, MkDict(sub.val)))
                ELSE EvalFail
        ELSE EvalFail
    ELSE EvalFail

\* Python eval of a text: a dict display, a one-element set display {lit},
\* anything else raises
PyEval(s) ==
    IF Len(s) = 0 \/ s[1].t # "lb" THEN EvalFail
    ELSE IF Len(s) = 3 /\ s[2].t = "lit" /\ s[3].t = "rb"
         THEN [ok |-> TRUE, val |-> [ty |-> "set"]]
    ELSE LET r == ParseItems(s, 2, <<>>)
         IN IF r.ok /\ r.next = Len(s) + 1
            THEN [ok |-> TRUE, val |-> MkDict(r.val)]
            ELSE EvalFail

\* utils.try_to_find_and_eval_dict: [ok, val]; ok = FALSE is the ValueError
try_to_find_and_eval_dict(input_string) ==
    LET fl == find_first_and_last_braces(input_string)
        trimmed == PySlice(input_string, fl[1], fl[2] + 1)
    IN PyEval(trimmed)

\* ------------------------------------------------------------- tokens
LB == [t |-> "lb"]
RB == [t |-> "rb"]
Prose == [t |-> "x"]
Lit == [t |-> "lit"]
Marker == [t |-> "answer_dictionary"]
KV(k, v) == [t |-> "kv", k |-> k, v |-> v]
Key(k) == [t |-> "key", k |-> k]

\* an optional text: Python None, or a str given as its tokens
NoText == [none |-> TRUE, text |-> <<>>]
Text(s) == [none |-> FALSE, text |-> s]

\* a completion response as CompletionResponse exposes it: its content
\* (no text when the payload has no first choice / message / content)
Response(content) == [ty |-> "resp", content |-> content]

\* ------------------------------------------------------ question records
\* the question ids in play (those of the tests' fixtures)
QuestionIds == {1, 2}

\* text of one field of the platform's record of question q
TextOf(field, q) == [ty |-> "str", s |-> field, q |-> q]

RequiredKeys ==
    <<"id", "title", "resolution_criteria", "fine_print", "description", "publish_time">>

\* the raw record of question q: QuestionDetails.details_dict
RawDetails(q) ==
    MkDict([i \in 1..Len(RequiredKeys) |->
              [k |-> StrKey(RequiredKeys[i]), v |-> TextOf(RequiredKeys[i], q)]])

\* QuestionDetails.title
TitleOf(details) == DictVal(details, StrKey("title"))

\* lists of at most n question ids
IdLists(n) == UNION {[1..m -> QuestionIds] : m \in 0..n}

\* a constructor's question_ids argument: a list, or a value that is no Iterable
NotIterable == [iterable |-> FALSE, list |-> <<>>]
ListArg(l) == [iterable |-> TRUE, list |-> l]
IdArgs == {ListArg(l) : l \in IdLists(MaxIds)} \cup {NotIterable}

\* a supplied question_details_dict: id -> raw record, over any set of ids
DetailMaps == {[q \in S |-> RawDetails(q)] : S \in SUBSET QuestionIds}

\* -------------------------------------------- unification model outputs
UnifiedKeys == <<"title", "background", "resolution_criteria", "fine_print", "description">>
MandatoryKeys == {"title", "background", "resolution_criteria", "fine_print"}

\* the pairs "k": "<unified k>" for the keys of K, in a fixed order
UnifiedPairs(K) ==
    LET Chosen(k) == k \in K
        ks == SelectSeq(UnifiedKeys, Chosen)
    IN [i \in 1..Len(ks) |-> KV(StrKey(ks[i]), TextOf(ks[i], 0))]

Padding == {<<>>, <<Prose>>}

UnifBodies ==
    {<<>>, <<LB>>, <<RB>>, <<RB, LB>>, <<LB, Prose, RB>>, <<LB, Lit, RB>>}
    \cup {<<LB>> \o UnifiedPairs(K) \o <<RB>> : K \in SUBSET {UnifiedKeys[i] : i \in 1..Len(UnifiedKeys)}}

\* contents a unification completion can carry
UnifContents ==
    {Text(pre \o body \o post) : pre \in Padding, body \in UnifBodies, post \in Padding}
    \cup {NoText}

\* ---------------------------------------------------------------- errors
\* what a call returned: "ok", or the exception it raised
ErrNotIterable == "ValueError: question_ids must be a list of integers"
ErrMissingKeys == "ValueError: Missing required keys in details_dict"
ErrNoProxy == "ValueError: The environment variable METACULUS_OPENAI_PROXY_URL is not set"
ErrUnifParse == "ValueError: Failed to parse detail unification content"
ErrNotUnified == "ValueError: Unified details have not been fetched yet"
ErrForecastParse == "ValueError: Failed to parse forecast response content"
ErrGroupParse == "ValueError: Failed to parse question grouping content"
ErrAssertRange == "AssertionError: Forecasts should be between 0 and 1"
ErrHTTP == "HTTPError"
ErrKey == "KeyError"
ErrType == "TypeError"
ErrAttribute == "AttributeError"
ErrFileNotFound == "FileNotFoundError"
ErrFetch == "Exception: Error fetching"
ErrValue == "ValueError"
ErrOS == "OSError"
ErrOutputParser == "OutputParserException"
ErrClean == "Exception: An error occurred while cleaning HTML content"
ErrLLM == "Exception: error during the LLM call"

\* ----------------------------------------------------------------- state
VARIABLES
    \* DetailsPreparation
    dp_phase,               \* "new": not constructed, "live", "dead": __init__ raised
    dp_arg,                 \* the question_ids argument __init__ was called with
    question_ids,           \* self.question_ids
    question_details_dict,  \* self.question_details_dict
    unification_response,   \* self.unification_response
    unified_details,        \* self.unified_details
    dp_last,                \* the last call made on the object and what it returned
    dp_ret,                 \* the value the last call returned (None if none)
    dp_model_calls,         \* completion requests the object has sent to the proxy
    dp_gets                 \* GET requests the constructor has sent to the platform

dpVars == <<dp_phase, dp_arg, question_ids, question_details_dict, unification_response,
            unified_details, dp_last, dp_ret, dp_model_calls, dp_gets>>

VARIABLES
    \* one call of metaculus.upload_predictions
    up_pc,       \* "idle": not called, "posting": in the loop, "done": returned / raised
    up_args,     \* the arguments of the call
    up_i,        \* position in question_ids of the question being posted
    up_step,     \* the POST the loop issues next: "prediction" or "comment"
    up_posts,    \* the POST requests issued so far, in order
    up_result    \* "ok", or the exception the call raised

upVars == <<up_pc, up_args, up_i, up_step, up_posts, up_result>>

VARIABLES
    \* Forecaster (its details_preparator is the DetailsPreparation above)
    fc_phase,           \* "new": not constructed, "live"
    forecast_response,  \* self.forecast_response
    forecast_dict,      \* self.forecast_dict
    fc_last,            \* the last call made on the object and what it returned
    fc_model_calls,     \* completion requests the object has sent to the proxy
    fc_files,           \* the forecast directory: file name -> what was written
    fc_news,            \* self.news: is the AskNewsFetcher attached (TRUE) or is it None
    fc_messages         \* the messages make_messages_for_forecast built last

fcVars == <<fc_phase, forecast_response, forecast_dict, fc_last, fc_model_calls, fc_files,
            fc_news, fc_messages>>

VARIABLES
    \* AskNewsFetcher
    news_phase,             \* "new": not constructed, "live"
    query,                  \* self.query
    n_hot_articles,         \* self.n_hot_articles
    n_historical_articles,  \* self.n_historical_articles
    hot_response,           \* self.hot_response
    historical_response,    \* self.historical_response
    news_last,              \* the last call made on the object and what it returned
    news_ret,               \* the string the last make_news_str returned (<<>> if none)
    hot_searches,           \* "latest news" searches sent to the news service
    historical_searches     \* "news knowledge" searches sent to the news service

newsVars == <<news_phase, query, n_hot_articles, n_historical_articles, hot_response,
              historical_response, news_last, news_ret, hot_searches,
              historical_searches>>

VARIABLES
    \* GroupSeparator
    gs_phase,           \* "new": not constructed, "live", "dead": __init__ raised
    gs_details,         \* self.question_details_dict
    grouping_response,  \* self.grouping_response
    grouped_questions,  \* self.grouped_questions
    gs_last,            \* the last call made on the object and what it returned
    gs_model_calls      \* completion requests the object has sent to the proxy

gsVars == <<gs_phase, gs_details, grouping_response, grouped_questions, gs_last,
            gs_model_calls>>

VARIABLES
    \* VectorStoreManager and the platform's list of binary questions
    vs_pc,           \* "new": not constructed, "idle", "loop": in update_store, "done"
    vs_total,        \* questions on the platform; the k-th published has id k
    vs_published,    \* questions published since the manager was constructed
    vs_store,        \* ids of the documents in the index
    existing_ids,    \* update_store's existing_ids
    current_offset,  \* update_store's current_offset
    vs_added,        \* ids update_store has handed to add_documents
    vs_readded,      \* ids update_store has handed to add_documents more than once
    vs_result        \* "none", "ok", or the exception update_store raised

vsVars == <<vs_pc, vs_total, vs_published, vs_store, existing_ids, current_offset,
            vs_added, vs_readded, vs_result>>

VARIABLES
    \* HtmlContentProcessor
    html_pc,           \* "new": not constructed, "idle", "loop": in run(), "done"
    html_backgrounds,  \* the URLs in each question's background, question by question
    html_urls,         \* run's urls
    html_todo,         \* the URLs the loop has not reached yet
    llm_responses,     \* self.llm_responses: URL -> response
    html_attempted,    \* URLs the current run has tried to fetch
    html_succeeded,    \* URLs fetched, cleaned and summarized by some run
    html_result        \* "none", "ok", or the exception run() raised

htmlVars == <<html_pc, html_backgrounds, html_urls, html_todo, llm_responses,
              html_attempted, html_succeeded, html_result>>

VARIABLES
    \* QuestionDetails
    qd_phase,         \* "new", "built": constructed, "failed": __post_init__ raised
    qd_details_dict,  \* the raw record handed to the constructor
    qd_error,         \* what __post_init__ raised: the error and its missing_keys
    qd_access         \* the last accessor read and what came of it

qdVars == <<qd_phase, qd_details_dict, qd_error, qd_access>>

VARIABLES
    \* CompletionResponse
    cr_phase,          \* "new" or "built"
    cr_response_json,  \* the payload the response wraps
    cr_access          \* the last accessor read and what came of it

crVars == <<cr_phase, cr_response_json, cr_access>>

VARIABLES
    \* chain_full, the staged pipeline
    chain_pc,      \* "new", the key the next step assigns, "done"
    chain_values,  \* the mapping the steps pass on: key -> value
    chain_calls,   \* the model calls made so far: chain, prompt variables, output
    chain_result   \* "none", "ok", or the exception invoke() raised

chainVars == <<chain_pc, chain_values, chain_calls, chain_result>>

VARIABLES
    \* LoggerFactory and the logging module's loggers
    lf_phase,        \* "new" or "live"
    log_to_console,  \* self.log_to_console
    logs_file,       \* are logs_file_dir and logs_file_name both set?
    log_level,       \* self.log_level
    root_handlers,   \* does the root logger have a handler of its own?
    lf_handlers,     \* logger name -> the handlers attached to it, in order
    lf_levels,       \* logger name -> its level
    lf_calls,        \* make_logger calls so far
    lf_last          \* the last call and what it returned

lfVars == <<lf_phase, log_to_console, logs_file, log_level, root_handlers, lf_handlers,
            lf_levels, lf_calls, lf_last>>

VARIABLES
    \* src.config and make_proxied_ChatOpenAI_LLM
    llm_phase,        \* "new": configuration not loaded, "configured"
    METACULUS_TOKEN,  \* config.METACULUS_TOKEN
    OPENAI_MODEL,     \* the configuration's default model
    llm_args,         \* the arguments of the last make_proxied_ChatOpenAI_LLM call
    llm_client        \* the ChatOpenAI the last call built

llmVars == <<llm_phase, METACULUS_TOKEN, OPENAI_MODEL, llm_args, llm_client>>

vars == <<dpVars, upVars, fcVars, newsVars, gsVars, vsVars, htmlVars, qdVars, crVars, chainVars,
          lfVars, llmVars>>

Called(op, result) == [op |-> op, result |-> result]
FetchUnifOk == Called("fetch_detail_unification_response", "ok")

\* ------------------------------------------------- DetailsPreparation
DPInitState ==
    /\ dp_phase = "new"
    /\ dp_arg = NotIterable
    /\ question_ids = <<>>
    /\ question_details_dict = [q \in {} |-> None]
    /\ unification_response = None
    /\ unified_details = None
    /\ dp_last = Called("none", "ok")
    /\ dp_ret = None
    /\ dp_model_calls = 0
    /\ dp_gets = 0

\* __init__ lines 70-74: unified_details right after construction
InitialUnifiedDetails(ids, details) ==
    IF Len(ids) = 1 THEN details[ids[1]] ELSE None

\* __init__ raised: no object exists
DPInitRaises(err, gets) ==
    /\ dp_phase' = "dead"
    /\ dp_last' = (Called("__init__", err))
    /\ dp_gets' = dp_gets + gets
    /\ UNCHANGED <<question_ids, question_details_dict, unification_response,
                   unified_details, dp_ret, dp_model_calls>>

DPInitWith(ids, details, gets) ==
    IF Len(ids) = 1 /\ ids[1] \notin DOMAIN details
    THEN DPInitRaises(ErrKey, gets)
    ELSE /\ dp_phase' = "live"
         /\ question_ids' = ids
         /\ question_details_dict' = details
         /\ unification_response' = None
         /\ unified_details' = InitialUnifiedDetails(ids, details)
         /\ dp_last' = (Called("__init__", "ok"))
         /\ dp_gets' = dp_gets + gets
         /\ UNCHANGED <<dp_ret, dp_model_calls>>

\* DetailsPreparation(question_ids, question_details_dict): the mapping is
\* supplied, or fetched with one GET per listed id (metaculus.py 97-101);
\* a GET may fail, and a fetched record may lack a required key
DPInit(arg, supplied, details) ==
    /\ dp_arg' = arg
    /\ IF ~arg.iterable THEN DPInitRaises(ErrNotIterable, 0)
       ELSE IF supplied THEN DPInitWith(arg.list, details, 0)
       ELSE \/ DPInitWith(arg.list,
                          [q \in {arg.list[i] : i \in 1..Len(arg.list)} |-> RawDetails(q)],
                          Len(arg.list))
            \/ \E n \in 1..Len(arg.list), err \in {ErrHTTP, ErrMissingKeys} :
                  DPInitRaises(err, n)

\* metaculus.extract_questions + concatenated_questions_str: the listed
\* questions as (id, title), [ok, val]; a listed id without details raises
concatenated_questions_str(ids, details) ==
    IF \E i \in 1..Len(ids) : ids[i] \notin DOMAIN details
    THEN [ok |-> FALSE, err |-> ErrKey]
    ELSE [ok |-> TRUE,
          val |-> [i \in 1..Len(ids) |-> [id |-> ids[i], title |-> TitleOf(details[ids[i]])]]]

\* apply_question_template_to_unification_json: the rendered template
apply_question_template_to_unification_json(question_str, details_dict) ==
    IF details_dict.ty # "dict" THEN [ok |-> FALSE, err |-> ErrType]
    ELSE IF ~DictHas(details_dict, StrKey("resolution_criteria")) THEN [ok |-> FALSE, err |-> ErrKey]
    ELSE IF ~DictHas(details_dict, StrKey("fine_print")) THEN [ok |-> FALSE, err |-> ErrKey]
    ELSE IF ~DictHas(details_dict, StrKey("background"))
            /\ ~DictHas(details_dict, StrKey("description")) THEN [ok |-> FALSE, err |-> ErrKey]
    ELSE [ok |-> TRUE,
          val |-> [ty |-> "details_str",
                   questions |-> question_str,
                   resolution |-> DictVal(details_dict, StrKey("resolution_criteria")),
                   fine_print |-> DictVal(details_dict, StrKey("fine_print")),
                   background |->
                       IF DictHas(details_dict, StrKey("background"))
                       THEN DictVal(details_dict, StrKey("background"))
                       ELSE DictVal(details_dict, StrKey("description"))]]

\* make_details_str as a function of the object's fields: [ok, val | err]
make_details_str(ids, details, unified) ==
    IF unified = None THEN [ok |-> FALSE, err |-> ErrNotUnified]
    ELSE LET q == concatenated_questions_str(ids, details)
         IN IF ~q.ok THEN q
            ELSE apply_question_template_to_unification_json(q.val, unified)

\* a call of make_details_str()
DPMakeDetailsStr ==
    /\ dp_phase = "live"
    /\ LET r == make_details_str(question_ids, question_details_dict, unified_details)
       IN /\ dp_last' = (Called("make_details_str", IF r.ok THEN "ok" ELSE r.err))
          /\ dp_ret' = IF r.ok THEN r.val ELSE None
    /\ UNCHANGED <<dp_phase, dp_arg, question_ids, question_details_dict,
                   unification_response, unified_details, dp_model_calls, dp_gets>>
    /\ UNCHANGED <<upVars, fcVars, newsVars, gsVars, vsVars, htmlVars, qdVars, crVars, chainVars, lfVars, llmVars>>

\* mutant: the model is asked whether or not the details are there
NeedsUnification_Always(unified) == TRUE

\* fetch_detail_unification_response line 81: is the model asked?
NeedsUnification(unified) == unified = None

\* lines 86-93: the parsed content, [ok, val]; the bare except turns every
\* failure, a content of None included, into the ValueError
ParseUnification(content) ==
    IF content.none THEN EvalFail
    ELSE try_to_find_and_eval_dict(content.text)

DPFetchRaises(err, calls, response) ==
    /\ dp_last' = (Called("fetch_detail_unification_response", err))
    /\ dp_model_calls' = dp_model_calls + calls
    /\ unification_response' = response
    /\ dp_ret' = None
    /\ UNCHANGED <<dp_phase, dp_arg, question_ids, question_details_dict, unified_details,
                   dp_gets>>

\* what openai_utils.get_gpt_prediction_via_proxy (lines 11-48) can do:
\* raise before sending because the proxy URL is not configured, raise
\* because the HTTP request failed, or return the response
NoConfig == [kind |-> "noconfig", content |-> NoText]
HttpFails == [kind |-> "http", content |-> NoText]
Returns(content) == [kind |-> "response", content |-> content]
ProxyOutcomes(contents) == {NoConfig, HttpFails} \cup {Returns(c) : c \in contents}

\* the outcomes of the unification request
UnifOutcomes == ProxyOutcomes(UnifContents)

\* a call of fetch_detail_unification_response()
DPFetch ==
    /\ dp_phase = "live"
    /\ NeedsUnification(unified_details) => dp_model_calls < MaxCalls
    /\ UNCHANGED <<upVars, fcVars, newsVars, gsVars, vsVars, htmlVars, qdVars, crVars, chainVars, lfVars, llmVars>>
    /\ IF ~NeedsUnification(unified_details)
       THEN /\ dp_last' = (Called("fetch_detail_unification_response", "ok"))
            /\ dp_ret' = None
            /\ UNCHANGED <<dp_phase, dp_arg, question_ids, question_details_dict,
                           unification_response, unified_details, dp_model_calls, dp_gets>>
       ELSE IF \E i \in 1..Len(question_ids) : question_ids[i] \notin DOMAIN question_details_dict
       THEN DPFetchRaises(ErrKey, 0, unification_response)
       ELSE \E out \in UnifOutcomes :
            IF out.kind = "noconfig" THEN DPFetchRaises(ErrNoProxy, 0, unification_response)
            ELSE IF out.kind = "http" THEN DPFetchRaises(ErrHTTP, 1, unification_response)
            ELSE LET parsed == ParseUnification(out.content)
                 IN IF ~parsed.ok THEN DPFetchRaises(ErrUnifParse, 1, Response(out.content))
                    ELSE /\ unified_details' = parsed.val
                         /\ unification_response' = Response(out.content)
                         /\ dp_model_calls' = dp_model_calls + 1
                         /\ dp_last' = (Called("fetch_detail_unification_response", "ok"))
                         /\ dp_ret' = None
                         /\ UNCHANGED <<dp_phase, dp_arg, question_ids,
                                        question_details_dict, dp_gets>>

DPConstruct ==
    /\ dp_phase = "new"
    /\ \E arg \in IdArgs, supplied \in BOOLEAN, details \in DetailMaps :
          DPInit(arg, supplied, details)
    /\ UNCHANGED <<upVars, fcVars, newsVars, gsVars, vsVars, htmlVars, qdVars, crVars, chainVars, lfVars, llmVars>>

DPNext ==
    \/ DPConstruct
    \/ DPMakeDetailsStr
    \/ DPFetch

\* -------------------------------------------- metaculus.upload_predictions
\* probabilities in hundredths: two below / above the range, three inside
ProbValues == {-1, 0, 50, 100, 101}

\* probabilities_dict: id -> probability, over any set of ids
ProbMaps == UNION {[S -> ProbValues] : S \in SUBSET QuestionIds}

\* summaries_dict: None, or id -> summary over any set of ids
NoSummaries == [given |-> FALSE, map |-> [q \in {} |-> None]]
SummaryArgs ==
    {NoSummaries}
    \cup {[given |-> TRUE, map |-> [q \in S |-> TextOf("summary", q)]] : S \in SUBSET QuestionIds}

UpInitState ==
    /\ up_pc = "idle"
    /\ up_args = [ids |-> <<>>, probs |-> [q \in {} |-> 0], sums |-> NoSummaries]
    /\ up_i = 0
    /\ up_step = "prediction"
    /\ up_posts = <<>>
    /\ up_result = "none"

\* mutant: the lower bound of the range check is lost
AllInRange_NoLowerBound(forecasts) ==
    \A i \in 1..Len(forecasts) : forecasts[i] <= 100

\* line 52: all (0 <= forecast <= 1 for forecast in forecasts)
AllInRange(forecasts) ==
    \A i \in 1..Len(forecasts) : 0 <= forecasts[i] /\ forecasts[i] <= 100

\* lines 51-53: the call up to the loop
UploadCall(ids, probs, sums) ==
    /\ up_pc = "idle"
    /\ up_args' = [ids |-> ids, probs |-> probs, sums |-> sums]
    /\ up_posts' = <<>>
    /\ IF \E i \in 1..Len(ids) : ids[i] \notin DOMAIN probs
       THEN up_pc' = "done" /\ up_result' = ErrKey /\ UNCHANGED <<up_i, up_step>>
       ELSE IF ~AllInRange([i \in 1..Len(ids) |-> probs[ids[i]]])
       THEN up_pc' = "done" /\ up_result' = ErrAssertRange /\ UNCHANGED <<up_i, up_step>>
       ELSE IF ids = <<>>
       THEN up_pc' = "done" /\ up_result' = "ok" /\ UNCHANGED <<up_i, up_step>>
       ELSE up_pc' = "posting" /\ up_i' = 1 /\ up_step' = "prediction" /\ up_result' = "none"

Posted(kind, q, payload, ok) == [kind |-> kind, id |-> q, payload |-> payload, ok |-> ok]

UploadRaises(err) ==
    /\ up_pc' = "done"
    /\ up_result' = err
    /\ UNCHANGED <<up_i, up_step>>

\* the loop's position after the last POST of question i
UploadAdvance(i, n) ==
    IF i < n
    THEN up_pc' = "posting" /\ up_i' = i + 1 /\ up_step' = "prediction" /\ up_result' = "none"
    ELSE up_pc' = "done" /\ up_result' = "ok" /\ UNCHANGED <<up_i, up_step>>

\* mutant: the comment is never posted
PostsComment_Never(sums) == FALSE

\* line 57: is a comment posted after the prediction?
PostsComment(sums) == sums.given

\* lines 54-56: post_question_prediction; raise_for_status raises on failure
UploadPrediction(http_ok) ==
    /\ up_pc = "posting" /\ up_step = "prediction"
    /\ LET q == up_args.ids[up_i]
       IN /\ up_posts' = Append(up_posts, Posted("prediction", q, up_args.probs[q], http_ok))
          /\ IF ~http_ok THEN UploadRaises(ErrHTTP)
             ELSE IF PostsComment(up_args.sums)
             THEN up_step' = "comment" /\ UNCHANGED <<up_pc, up_i, up_result>>
             ELSE UploadAdvance(up_i, Len(up_args.ids))
    /\ UNCHANGED up_args

\* lines 58-60: post_question_comment with the question's summary
UploadComment(http_ok) ==
    /\ up_pc = "posting" /\ up_step = "comment"
    /\ LET q == up_args.ids[up_i]
       IN IF q \notin DOMAIN up_args.sums.map
          THEN UploadRaises(ErrKey) /\ UNCHANGED up_posts
          ELSE /\ up_posts' = Append(up_posts, Posted("comment", q, up_args.sums.map[q], http_ok))
               /\ IF ~http_ok THEN UploadRaises(ErrHTTP)
                  ELSE UploadAdvance(up_i, Len(up_args.ids))
    /\ UNCHANGED up_args

UploadStart ==
    /\ \E ids \in IdLists(MaxIds), probs \in ProbMaps, sums \in SummaryArgs :
          UploadCall(ids, probs, sums)
    /\ UNCHANGED <<dpVars, fcVars, newsVars, gsVars, vsVars, htmlVars, qdVars, crVars, chainVars, lfVars, llmVars>>

UploadPostPrediction ==
    /\ \E http_ok \in BOOLEAN : UploadPrediction(http_ok)
    /\ UNCHANGED <<dpVars, fcVars, newsVars, gsVars, vsVars, htmlVars, qdVars, crVars, chainVars, lfVars, llmVars>>

UploadPostComment ==
    /\ \E http_ok \in BOOLEAN : UploadComment(http_ok)
    /\ UNCHANGED <<dpVars, fcVars, newsVars, gsVars, vsVars, htmlVars, qdVars, crVars, chainVars, lfVars, llmVars>>

UpNext ==
    \/ UploadStart
    \/ UploadPostPrediction
    \/ UploadPostComment

\* ------------------------------------------------------- AskNewsFetcher
\* dataclass defaults of n_hot_articles and n_historical_articles
DefaultHotArticles == 10
DefaultHistoricalArticles == 20

Queries == {"", "Covid-19"}

NewsInitState ==
    /\ news_phase = "new"
    /\ query = ""
    /\ n_hot_articles = DefaultHotArticles
    /\ n_historical_articles = DefaultHistoricalArticles
    /\ hot_response = None
    /\ historical_response = None
    /\ news_last = Called("none", "ok")
    /\ news_ret = <<>>
    /\ hot_searches = 0
    /\ historical_searches = 0

\* AskNewsFetcher(query, n_hot_articles, n_historical_articles): no
\* articles, the counts of the tests (5 and 10), or the defaults
NewsConstruct ==
    /\ news_phase = "new"
    /\ news_phase' = "live"
    /\ query' \in Queries
    /\ n_hot_articles' \in {0, 5, DefaultHotArticles}
    /\ n_historical_articles' \in {0, 10, DefaultHistoricalArticles}
    /\ hot_response' = None
    /\ historical_response' = None
    /\ news_last' = Called("__init__", "ok")
    /\ UNCHANGED <<news_ret, hot_searches, historical_searches>>
    /\ UNCHANGED <<dpVars, upVars, fcVars, gsVars, vsVars, htmlVars, qdVars, crVars, chainVars, lfVars, llmVars>>

\* mutant: the slot is searched for whether or not it is filled
ShouldSearch_IgnoringSlot(q, slot, n) == q # "" /\ n > 0

\* lines 60 and 70: is this slot searched for?
ShouldSearch(q, slot, n) == q # "" /\ slot = None /\ n > 0

\* what ask.news.search_news can do: return a response, return None (as
\* the tests' mock does), or raise
SearchOutcomes == {"articles", "nothing", "raises"}

\* the response of the serial-th search with a strategy
SearchResponse(strategy, serial) == [ty |-> "news", strategy |-> strategy, serial |-> serial]

\* a call of fetch_articles(): the hot search, then the historical one; a
\* search that raises ends the call
FetchArticles ==
    /\ news_phase = "live"
    /\ ShouldSearch(query, hot_response, n_hot_articles) => hot_searches < MaxCalls
    /\ ShouldSearch(query, historical_response, n_historical_articles)
          => historical_searches < MaxCalls
    /\ \E hot_out \in SearchOutcomes, hist_out \in SearchOutcomes :
          LET hot_do == ShouldSearch(query, hot_response, n_hot_articles)
              hot_raises == hot_do /\ hot_out = "raises"
              hist_do == ~hot_raises
                         /\ ShouldSearch(query, historical_response, n_historical_articles)
              hist_raises == hist_do /\ hist_out = "raises"
          IN /\ hot_searches' = IF hot_do THEN hot_searches + 1 ELSE hot_searches
             /\ hot_response' =
                   IF hot_do /\ hot_out = "articles"
                   THEN SearchResponse("latest news", hot_searches + 1)
                   ELSE hot_response
             /\ historical_searches' =
                   IF hist_do THEN historical_searches + 1 ELSE historical_searches
             /\ historical_response' =
                   IF hist_do /\ hist_out = "articles"
                   THEN SearchResponse("news knowledge", historical_searches + 1)
                   ELSE historical_response
             /\ news_last' = Called("fetch_articles",
                                    IF hot_raises \/ hist_raises THEN ErrHTTP ELSE "ok")
    /\ UNCHANGED <<news_phase, query, n_hot_articles, n_historical_articles, news_ret>>
    /\ UNCHANGED <<dpVars, upVars, fcVars, gsVars, vsVars, htmlVars, qdVars, crVars, chainVars, lfVars, llmVars>>

\* make_news_str as a function of the two slots: the paragraphs of the
\* string, one per slot that holds a response
make_news_str(hot, historical) ==
    (IF hot = None THEN <<>> ELSE <<[intro |-> "current information", articles |-> hot]>>)
    \o (IF historical = None THEN <<>>
        ELSE <<[intro |-> "historical context", articles |-> historical]>>)

\* a call of make_news_str()
MakeNewsStr ==
    /\ news_phase = "live"
    /\ news_ret' = make_news_str(hot_response, historical_response)
    /\ news_last' = Called("make_news_str", "ok")
    /\ UNCHANGED <<news_phase, query, n_hot_articles, n_historical_articles, hot_response,
                   historical_response, hot_searches, historical_searches>>
    /\ UNCHANGED <<dpVars, upVars, fcVars, gsVars, vsVars, htmlVars, qdVars, crVars, chainVars, lfVars, llmVars>>

NewsNext ==
    \/ NewsConstruct
    \/ FetchArticles
    \/ MakeNewsStr

\* ------------------------------------------------------------ Forecaster
FCInitState ==
    /\ fc_phase = "new"
    /\ forecast_response = None
    /\ forecast_dict = None
    /\ fc_last = Called("none", "ok")
    /\ fc_model_calls = 0
    /\ fc_files = <<>>
    /\ fc_news = FALSE
    /\ fc_messages = <<>>

\* list.sort() on question ids: insertion of x into an ascending list
InsertAsc(x, sorted) ==
    LET NotAfter(y) == y <= x
        After(y) == y > x
    IN SelectSeq(sorted, NotAfter) \o <<x>> \o SelectSeq(sorted, After)

RECURSIVE SortAsc(_)
SortAsc(l) == IF l = <<>> THEN <<>> ELSE InsertAsc(Head(l), SortAsc(Tail(l)))

\* ---- forecast model outputs
SeqsUpTo(S, n) == UNION {[1..m -> S] : m \in 0..n}

\* "k": v pairs of a forecasts mapping: '1': 0.75, 1: '0.5' (the same
\* question once more, as an integer key and a numeric string), '2': 1.5,
\* and a key and a value that are no numbers, 'one': 0.75 and '1': 'high'
ForecastPairs ==
    {KV(StrKey("1"), NumVal(75)), KV(IntKey(1), StrVal("0.5")), KV(StrKey("2"), NumVal(150)),
     KV(StrKey("one"), NumVal(75)), KV(StrKey("1"), StrVal("high"))}

\* "k": "<summary>" pairs of a summaries mapping: keys '1', 'one'
SummaryPairs == {KV(k, TextOf("summary", 0)) : k \in {StrKey("1"), StrKey("one")}}

\* {"forecasts": {f}, "summaries": {sm}}
AnswerDict(f, sm) ==
    <<LB, Key(StrKey("forecasts")), LB>> \o f
    \o <<RB, Key(StrKey("summaries")), LB>> \o sm \o <<RB, RB>>

\* the answers whose pairs are at most MaxEntries in all
AnswerDicts ==
    {AnswerDict(p[1], p[2]) :
        p \in {x \in SeqsUpTo(ForecastPairs, MaxEntries) \X SeqsUpTo(SummaryPairs, MaxEntries) :
                  Len(x[1]) + Len(x[2]) <= MaxEntries}}

\* outputs that are no answer dictionary: no braces, an unclosed brace, a
\* set, an empty dict, no summaries, scalars in place of the mappings
OtherBodies ==
    {<<>>, <<LB>>, <<LB, Lit, RB>>, <<LB, RB>>,
     <<LB, Key(StrKey("forecasts")), LB, RB, RB>>,
     <<LB, KV(StrKey("forecasts"), StrVal("0.5")), KV(StrKey("summaries"), StrVal("0.5")), RB>>}

\* what surrounds the dictionary: nothing, prose, an earlier braced
\* passage with and without the "answer_dictionary" marker after it
Wrappings ==
    {[pre |-> <<>>, post |-> <<>>],
     [pre |-> <<Prose>>, post |-> <<Prose>>],
     [pre |-> <<LB, Prose, RB, Marker, Prose>>, post |-> <<>>],
     [pre |-> <<LB, Prose, RB, Prose>>, post |-> <<>>]}

\* contents a forecast completion can carry
ForecastContents ==
    {Text(w.pre \o b \o w.post) : w \in Wrappings, b \in AnswerDicts \cup OtherBodies}
    \cup {NoText}

ForecastOutcomes == ProxyOutcomes(ForecastContents)

\* ---- parse_forecast_response lines 88-89
\* mutant: a value that is no number is left out instead of raising
RECURSIVE CoerceForecasts_SkipsBadValues(_, _)
CoerceForecasts_SkipsBadValues(items, acc) ==
    IF items = <<>> THEN [ok |-> TRUE, val |-> acc]
    ELSE LET k == PyInt(Head(items).k)
             v == PyFloat(Head(items).v)
         IN IF ~k.ok THEN [ok |-> FALSE]
            ELSE IF ~v.ok THEN CoerceForecasts_SkipsBadValues(Tail(items), acc)
            ELSE CoerceForecasts_SkipsBadValues(Tail(items), DictPut(acc, k.val, v.val))

\* {int(k): float(v) for k, v in items}: [ok, val]
RECURSIVE CoerceForecasts(_, _)
CoerceForecasts(items, acc) ==
    IF items = <<>> THEN [ok |-> TRUE, val |-> acc]
    ELSE LET k == PyInt(Head(items).k)
             v == PyFloat(Head(items).v)
         IN IF k.ok /\ v.ok
            THEN CoerceForecasts(Tail(items), DictPut(acc, k.val, v.val))
            ELSE [ok |-> FALSE]

\* {int(k): v for k, v in items}: [ok, val]
RECURSIVE CoerceSummaries(_, _)
CoerceSummaries(items, acc) ==
    IF items = <<>> THEN [ok |-> TRUE, val |-> acc]
    ELSE LET k == PyInt(Head(items).k)
         IN IF k.ok
            THEN CoerceSummaries(Tail(items), DictPut(acc, k.val, Head(items).v))
            ELSE [ok |-> FALSE]

\* the mapping under key k of a parsed value: [ok, val]; anything but a
\* dict holding a dict under k raises
MappingUnder(parsed, k) ==
    IF parsed.ty = "dict" /\ DictHas(parsed, StrKey(k)) /\ DictVal(parsed, StrKey(k)).ty = "dict"
    THEN [ok |-> TRUE, val |-> DictVal(parsed, StrKey(k)).items]
    ELSE [ok |-> FALSE]

ForecastDict(forecasts, summaries) ==
    MkDict(<<[k |-> StrKey("forecasts"), v |-> MkDict(forecasts)],
             [k |-> StrKey("summaries"), v |-> MkDict(summaries)]>>)

\* lines 85-93, the try block on the trimmed answer: [ok, val]; ok = FALSE
\* is the ValueError of line 93
SanitizeForecast(trimmed_answer) ==
    LET parsed == try_to_find_and_eval_dict(trimmed_answer)
    IN IF ~parsed.ok THEN [ok |-> FALSE]
       ELSE LET f == MappingUnder(parsed.val, "forecasts")
                sm == MappingUnder(parsed.val, "summaries")
            IN IF ~f.ok THEN [ok |-> FALSE]
               ELSE LET sanitized_forecasts == CoerceForecasts(f.val, <<>>)
                    IN IF ~sanitized_forecasts.ok \/ ~sm.ok THEN [ok |-> FALSE]
                       ELSE LET sanitized_summaries == CoerceSummaries(sm.val, <<>>)
                            IN IF ~sanitized_summaries.ok THEN [ok |-> FALSE]
                               ELSE [ok |-> TRUE,
                                     val |-> ForecastDict(sanitized_forecasts.val,
                                                          sanitized_summaries.val)]

\* line 84: the text handed to the try block
TrimmedAnswer(content) == trim_beginning_of_string(content.text, "answer_dictionary")

\* Forecaster(details_preparator, news): news is None or the
\* AskNewsFetcher; forecast_response and forecast_dict take their defaults
FCConstruct ==
    /\ fc_phase = "new"
    /\ dp_phase = "live"
    /\ fc_phase' = "live"
    /\ fc_news' \in {FALSE} \cup {b \in {TRUE} : news_phase = "live"}
    /\ forecast_response' = None
    /\ forecast_dict' = None
    /\ fc_last' = Called("__init__", "ok")
    /\ UNCHANGED <<fc_model_calls, fc_files, fc_messages>>
    /\ UNCHANGED <<dpVars, upVars, newsVars, gsVars, vsVars, htmlVars, qdVars, crVars, chainVars, lfVars, llmVars>>

\* the system message: system_str, the forecasting instructions and the
\* answer format
SystemMessage == [ty |-> "system_message"]

\* a news string as a message content
NewsStr(paragraphs) == [ty |-> "news_str", paragraphs |-> paragraphs]

\* mutant: the news goes after the question
make_messages_for_forecaster_NewsLast(question_str, news_str) ==
    <<[role |-> "system", content |-> SystemMessage],
      [role |-> "user", content |-> question_str]>>
    \o (IF ~news_str.none THEN <<[role |-> "assistant", content |-> NewsStr(news_str.text)]>>
        ELSE <<>>)

\* make_messages_for_forecaster(question_str, news_str), lines 113-119
make_messages_for_forecaster(question_str, news_str) ==
    <<[role |-> "system", content |-> SystemMessage]>>
    \o (IF ~news_str.none THEN <<[role |-> "assistant", content |-> NewsStr(news_str.text)]>>
        ELSE <<>>)
    \o <<[role |-> "user", content |-> question_str]>>

\* make_messages_for_forecast, lines 74-81, given the details string
make_messages_for_forecast(question_details_str, attached, hot, historical) ==
    IF ~attached THEN make_messages_for_forecaster(question_details_str, NoText)
    ELSE make_messages_for_forecaster(question_details_str, Text(make_news_str(hot, historical)))

\* mutant: the stored response is not looked at
AlreadyFetched_Never(response) == FALSE

\* line 66: is the response already there?
AlreadyFetched(response) == response # None

FCFetchRaises(err, calls) ==
    /\ fc_last' = Called("fetch_forecast_response", err)
    /\ fc_model_calls' = fc_model_calls + calls
    /\ UNCHANGED <<forecast_response, forecast_dict>>

\* a call of fetch_forecast_response(): the debug line sorts the
\* preparator's question_ids in place (__q_ids_str, lines 105-109); the
\* messages are built from make_details_str() before the request is sent
FCFetch ==
    /\ fc_phase = "live"
    /\ ~AlreadyFetched(forecast_response) => fc_model_calls < MaxCalls
    /\ question_ids' = SortAsc(question_ids)
    /\ IF AlreadyFetched(forecast_response)
       THEN /\ fc_last' = Called("fetch_forecast_response", "ok")
            /\ UNCHANGED <<forecast_response, forecast_dict, fc_model_calls, fc_messages,
                           dp_last, dp_ret>>
       ELSE LET d == make_details_str(question_ids', question_details_dict, unified_details)
            IN /\ dp_last' = Called("make_details_str", IF d.ok THEN "ok" ELSE d.err)
               /\ dp_ret' = IF d.ok THEN d.val ELSE None
               /\ fc_messages' =
                     IF d.ok
                     THEN make_messages_for_forecast(d.val, fc_news, hot_response, historical_response)
                     ELSE fc_messages
               /\ IF ~d.ok THEN FCFetchRaises(d.err, 0)
                  ELSE \E out \in ForecastOutcomes :
                       IF out.kind = "noconfig" THEN FCFetchRaises(ErrNoProxy, 0)
                       ELSE IF out.kind = "http" THEN FCFetchRaises(ErrHTTP, 1)
                       ELSE /\ forecast_response' = Response(out.content)
                            /\ fc_model_calls' = fc_model_calls + 1
                            /\ fc_last' = Called("fetch_forecast_response", "ok")
                            /\ UNCHANGED forecast_dict
    /\ UNCHANGED <<fc_phase, fc_files, fc_news, dp_phase, dp_arg, question_details_dict,
                   unification_response, unified_details, dp_model_calls, dp_gets>>
    /\ UNCHANGED <<upVars, newsVars, gsVars, vsVars, htmlVars, qdVars, crVars, chainVars, lfVars, llmVars>>

\* mutant: a failed parse stores the mappings as far as they were coerced
ParsedOrKept_StoresPartial(old, r) ==
    IF r.ok THEN r.val ELSE ForecastDict(<<>>, <<>>)

\* line 90 is the last statement of the try block: forecast_dict is
\* assigned when both mappings were coerced, and is left alone otherwise
ParsedOrKept(old, r) == IF r.ok THEN r.val ELSE old

\* a call of parse_forecast_response(): line 84 is outside the try block,
\* so a missing response or a response without content raises
\* AttributeError
FCParse ==
    /\ fc_phase = "live"
    /\ IF forecast_response = None \/ forecast_response.content.none
       THEN fc_last' = Called("parse_forecast_response", ErrAttribute)
            /\ UNCHANGED forecast_dict
       ELSE LET r == SanitizeForecast(TrimmedAnswer(forecast_response.content))
            IN /\ forecast_dict' = ParsedOrKept(forecast_dict, r)
               /\ fc_last' = Called("parse_forecast_response",
                                    IF r.ok THEN "ok" ELSE ErrForecastParse)
    /\ UNCHANGED <<fc_phase, forecast_response, fc_model_calls, fc_files, fc_news, fc_messages>>
    /\ UNCHANGED <<dpVars, upVars, newsVars, gsVars, vsVars, htmlVars, qdVars, crVars, chainVars, lfVars, llmVars>>

\* __q_ids_str, lines 105-109: the sorted ids joined by "_"; the file is
\* named by it
QIdsStr(ids) == SortAsc(ids)

\* line 103: the text written, usage, input and output
ForecastFile(messages, content) ==
    [usage |-> "tokens_all", input |-> messages, output |-> content]

\* open(filename, "w") and write: the file is created or replaced
WriteFile(files, name, text) ==
    [n \in DOMAIN files \cup {name} |-> IF n = name THEN text ELSE files[n]]

FCPersistRaises(err) ==
    /\ fc_last' = Called("persist_forecast", err)
    /\ UNCHANGED fc_files

\* a call of persist_forecast(): line 96 sorts the preparator's
\* question_ids in place, line 98 reads the response's token counts, line
\* 99 rebuilds the messages from make_details_str(), line 102 opens the
\* file, which fails when the directory does not exist
FCPersist ==
    /\ fc_phase = "live"
    /\ question_ids' = SortAsc(question_ids)
    /\ IF forecast_response = None
       THEN FCPersistRaises(ErrAttribute) /\ UNCHANGED <<dp_last, dp_ret, fc_messages>>
       ELSE LET d == make_details_str(question_ids', question_details_dict, unified_details)
            IN /\ dp_last' = Called("make_details_str", IF d.ok THEN "ok" ELSE d.err)
               /\ dp_ret' = IF d.ok THEN d.val ELSE None
               /\ fc_messages' =
                     IF d.ok
                     THEN make_messages_for_forecast(d.val, fc_news, hot_response, historical_response)
                     ELSE fc_messages
               /\ IF ~d.ok THEN FCPersistRaises(d.err)
                  ELSE \E dir_exists \in BOOLEAN :
                       IF ~dir_exists THEN FCPersistRaises(ErrFileNotFound)
                       ELSE /\ fc_files' = WriteFile(fc_files, QIdsStr(question_ids'),
                                                     ForecastFile(fc_messages', forecast_response.content))
                            /\ fc_last' = Called("persist_forecast", "ok")
    /\ UNCHANGED <<fc_phase, forecast_response, forecast_dict, fc_model_calls, fc_news>>
    /\ UNCHANGED <<dp_phase, dp_arg, question_details_dict, unification_response,
                   unified_details, dp_model_calls, dp_gets>>
    /\ UNCHANGED <<upVars, newsVars, gsVars, vsVars, htmlVars, qdVars, crVars, chainVars, lfVars, llmVars>>

FCNext ==
    \/ FCConstruct
    \/ FCFetch
    \/ FCParse
    \/ FCPersist

\* -------------------------------------------------------- GroupSeparator
GSInitState ==
    /\ gs_phase = "new"
    /\ gs_details = <<>>
    /\ grouping_response = None
    /\ grouped_questions = None
    /\ gs_last = Called("none", "ok")
    /\ gs_model_calls = 0

\* an id list of a group: a Python list of ints
ListVal(l) == [ty |-> "list", items |-> l]

\* "label": [ids] pairs of a grouping
GroupLabels == {"elections", "inflation"}
GroupPairs ==
    {KV(StrKey(g), ListVal(l)) : g \in GroupLabels, l \in {<<1>>, <<1, 2>>}}

\* a grouping dictionary with at most MaxEntries pairs
GroupDicts == {<<LB>> \o pairs \o <<RB>> : pairs \in SeqsUpTo(GroupPairs, MaxEntries)}

\* outputs that are no dictionary: no braces, an unclosed brace, prose in
\* braces, a set
GroupOtherBodies == {<<>>, <<LB>>, <<LB, Prose, RB>>, <<LB, Lit, RB>>}

\* contents a grouping completion can carry
GroupContents ==
    {Text(pre \o body \o post) :
        pre \in Padding, body \in GroupDicts \cup GroupOtherBodies, post \in Padding}
    \cup {NoText}

GroupOutcomes == ProxyOutcomes(GroupContents)

\* GroupSeparator(question_ids): a value that is no Iterable is refused;
\* the details are fetched with one GET per id, and a GET may fail
GSConstruct ==
    /\ gs_phase = "new"
    /\ \E arg \in IdArgs, get_fails \in BOOLEAN :
          IF ~arg.iterable
          THEN /\ gs_phase' = "dead"
               /\ gs_last' = Called("__init__", ErrNotIterable)
               /\ UNCHANGED gs_details
          ELSE IF get_fails /\ arg.list # <<>>
          THEN /\ gs_phase' = "dead"
               /\ gs_last' = Called("__init__", ErrHTTP)
               /\ UNCHANGED gs_details
          ELSE /\ gs_phase' = "live"
               /\ gs_details' = [q \in {arg.list[i] : i \in 1..Len(arg.list)} |-> RawDetails(q)]
               /\ gs_last' = Called("__init__", "ok")
    /\ grouping_response' = None
    /\ grouped_questions' = None
    /\ UNCHANGED gs_model_calls
    /\ UNCHANGED <<dpVars, upVars, fcVars, newsVars, vsVars, htmlVars, qdVars, crVars, chainVars, lfVars, llmVars>>

\* mutant: the stored response is not looked at
GroupingFetched_Never(response) == FALSE

\* line 59: is the grouping response already there?
GroupingFetched(response) == response # None

\* lines 67-73: the parsed content, [ok, val]; the bare except turns every
\* failure, a content of None included, into the ValueError
ParseGrouping(content) ==
    IF content.none THEN EvalFail
    ELSE try_to_find_and_eval_dict(content.text)

\* mutant: a call that raises stores no response
GSFetchRaises_DropsResponse(err, calls, response) ==
    /\ gs_last' = Called("fetch_grouping_response", err)
    /\ gs_model_calls' = gs_model_calls + calls
    /\ grouping_response' = None
    /\ UNCHANGED grouped_questions

\* a call that raises: the response is stored by then or not (line 64 is
\* before the try block), grouped_questions is not assigned
GSFetchRaises(err, calls, response) ==
    /\ gs_last' = Called("fetch_grouping_response", err)
    /\ gs_model_calls' = gs_model_calls + calls
    /\ grouping_response' = response
    /\ UNCHANGED grouped_questions

\* a call of fetch_grouping_response()
GSFetch ==
    /\ gs_phase = "live"
    /\ ~GroupingFetched(grouping_response) => gs_model_calls < MaxCalls
    /\ IF GroupingFetched(grouping_response)
       THEN /\ gs_last' = Called("fetch_grouping_response", "ok")
            /\ UNCHANGED <<grouping_response, grouped_questions, gs_model_calls>>
       ELSE \E out \in GroupOutcomes :
            IF out.kind = "noconfig" THEN GSFetchRaises(ErrNoProxy, 0, grouping_response)
            ELSE IF out.kind = "http" THEN GSFetchRaises(ErrHTTP, 1, grouping_response)
            ELSE LET parsed == ParseGrouping(out.content)
                 IN IF ~parsed.ok THEN GSFetchRaises(ErrGroupParse, 1, Response(out.content))
                    ELSE /\ grouped_questions' = parsed.val
                         /\ grouping_response' = Response(out.content)
                         /\ gs_model_calls' = gs_model_calls + 1
                         /\ gs_last' = Called("fetch_grouping_response", "ok")
    /\ UNCHANGED <<gs_phase, gs_details>>
    /\ UNCHANGED <<dpVars, upVars, fcVars, newsVars, vsVars, htmlVars, qdVars, crVars, chainVars, lfVars, llmVars>>

GSNext ==
    \/ GSConstruct
    \/ GSFetch

\* ---------------------------------------------------- VectorStoreManager
\* list_questions(count=100) and current_offset += 100
PageSize == 100
OffsetStep == 100

HalfPage == PageSize \div 2

\* platform sizes: no question, and every half page up to MaxPages pages
Totals == {k * HalfPage : k \in 0..(2 * MaxPages)}

\* indexes found on disk: empty, the oldest questions up to some point, all
\* questions, or a stretch that leaves the oldest half page out
Stores(total) ==
    {{n \in 1..total : lo <= n /\ n <= hi} :
        lo \in {1, HalfPage + 1}, hi \in {0, HalfPage, PageSize, total}}

VSInitState ==
    /\ vs_pc = "new"
    /\ vs_total = 0
    /\ vs_published = 0
    /\ vs_store = {}
    /\ existing_ids = {}
    /\ current_offset = 0
    /\ vs_added = {}
    /\ vs_readded = {}
    /\ vs_result = "none"

\* VectorStoreManager(): the persistent index is opened as it is on disk
VSConstruct ==
    /\ vs_pc = "new"
    /\ vs_pc' = "idle"
    /\ vs_total' \in Totals
    /\ vs_store' \in Stores(vs_total')
    /\ UNCHANGED <<vs_published, existing_ids, current_offset, vs_added,
                   vs_readded, vs_result>>
    /\ UNCHANGED <<dpVars, upVars, fcVars, newsVars, gsVars, htmlVars, qdVars, crVars, chainVars, lfVars, llmVars>>

\* the platform: a binary question is published; it is the newest one
VSPublish ==
    /\ vs_pc \in {"idle", "loop"}
    /\ vs_published < MaxNew
    /\ vs_total' = vs_total + 1
    /\ vs_published' = vs_published + 1
    /\ UNCHANGED <<vs_pc, vs_store, existing_ids, current_offset, vs_added,
                   vs_readded, vs_result>>
    /\ UNCHANGED <<dpVars, upVars, fcVars, newsVars, gsVars, htmlVars, qdVars, crVars, chainVars, lfVars, llmVars>>

\* mutant: the pages run from the oldest question on
list_questions_OldestFirst(total, offset, count) ==
    {n \in 1..total : offset < n /\ n <= offset + count}

\* list_questions(order_by="-publish_time", offset, count): the ids of one
\* page, newest first from position offset
list_questions(total, offset, count) ==
    {n \in 1..total : total - offset - count < n /\ n <= total - offset}

\* lines 49-50: update_store reads the indexed ids and starts at offset 0
VSUpdateStart ==
    /\ vs_pc = "idle"
    /\ vs_pc' = "loop"
    /\ existing_ids' = vs_store
    /\ current_offset' = 0
    /\ UNCHANGED <<vs_total, vs_published, vs_store, vs_added, vs_readded,
                   vs_result>>
    /\ UNCHANGED <<dpVars, upVars, fcVars, newsVars, gsVars, htmlVars, qdVars, crVars, chainVars, lfVars, llmVars>>

\* mutant: the offset stays where it is
NextOffset_Stuck(offset) == offset

\* line 69: current_offset += 100
NextOffset(offset) == offset + OffsetStep

\* mutant: every question of the page counts as new
NewQuestions_Unfiltered(page, existing) == page

\* line 62: the questions of the page that are not indexed yet
NewQuestions(page, existing) == page \ existing

VSEnds(result) ==
    /\ vs_pc' = "done"
    /\ vs_result' = result
    /\ UNCHANGED <<vs_store, current_offset, vs_added, vs_readded>>

\* lines 52-69: one pass of the loop; the page request may fail, a record
\* of the page may lack a required key, an empty page and a page without
\* new questions end the call, new questions are added in one batch
VSPage ==
    /\ vs_pc = "loop"
    /\ \E outcome \in {"page", "http", "bad_record"} :
          LET results == list_questions(vs_total, current_offset, PageSize)
              new == NewQuestions(results, existing_ids)
          IN IF outcome = "http" THEN VSEnds(ErrHTTP)
             ELSE IF results = {} THEN VSEnds("ok")
             ELSE IF outcome = "bad_record" THEN VSEnds(ErrMissingKeys)
             ELSE IF new = {} THEN VSEnds("ok")
             ELSE /\ vs_store' = vs_store \cup new
                  /\ vs_readded' = vs_readded \cup (vs_added \cap new)
                  /\ vs_added' = vs_added \cup new
                  /\ current_offset' = NextOffset(current_offset)
                  /\ UNCHANGED <<vs_pc, vs_result>>
    /\ UNCHANGED <<vs_total, vs_published, existing_ids>>
    /\ UNCHANGED <<dpVars, upVars, fcVars, newsVars, gsVars, htmlVars, qdVars, crVars, chainVars, lfVars, llmVars>>

VSNext ==
    \/ VSConstruct
    \/ VSPublish
    \/ VSUpdateStart
    \/ VSPage

\* -------------------------------------------------- HtmlContentProcessor
Urls == 1..MaxUrls

\* a question's background: its description, a text with some URLs in it,
\* or null
Background == [none : {FALSE}, urls : SUBSET Urls] \cup {[none |-> TRUE, urls |-> {}]}

\* the backgrounds of one or two questions
Backgrounds == {<<a>> : a \in Background} \cup {<<a, b>> : a \in Background, b \in Background}

HtmlInitState ==
    /\ html_pc = "new"
    /\ html_backgrounds = <<>>
    /\ html_urls = {}
    /\ html_todo = {}
    /\ llm_responses = <<>>
    /\ html_attempted = {}
    /\ html_succeeded = {}
    /\ html_result = "none"

\* HtmlContentProcessor(details_preparation): llm_responses starts empty
HtmlConstruct ==
    /\ html_pc = "new"
    /\ html_pc' = "idle"
    /\ html_backgrounds' \in Backgrounds
    /\ llm_responses' = <<>>
    /\ UNCHANGED <<html_urls, html_todo, html_attempted, html_succeeded, html_result>>
    /\ UNCHANGED <<dpVars, upVars, fcVars, newsVars, gsVars, vsVars, qdVars, crVars, chainVars, lfVars, llmVars>>

\* extract_urls: re.findall on the text; on None it raises TypeError
extract_urls(text) ==
    IF text.none THEN [ok |-> FALSE, err |-> ErrType] ELSE [ok |-> TRUE, val |-> text.urls]

\* extract_urls_from_backgrounds: the URLs of all backgrounds, each once
extract_urls_from_backgrounds(backgrounds) ==
    IF \E i \in 1..Len(backgrounds) : ~extract_urls(backgrounds[i]).ok
    THEN [ok |-> FALSE, err |-> ErrType]
    ELSE [ok |-> TRUE,
          val |-> UNION {extract_urls(backgrounds[i]).val : i \in 1..Len(backgrounds)}]

\* what processing one URL can come to: the fetch raises, the page is
\* empty, cleaning raises, the LLM call raises, or the response arrives
UrlOutcomes == {ErrFetch, "empty", ErrClean, ErrLLM, "response"}

\* the summary the LLM gives of a URL's page
Summary(url) == [ty |-> "summary", url |-> url]

\* mutant: only a failed fetch is survived
Survives_OnlyFetch(outcome) == outcome = ErrFetch

\* line 73: except Exception catches whatever processing one URL raises
Survives(outcome) == outcome \in {ErrFetch, ErrClean, ErrLLM}

\* lines 61-63: run() extracts the URLs and enters the loop
HtmlRunStart ==
    /\ html_pc \in {"idle", "done"}
    /\ LET x == extract_urls_from_backgrounds(html_backgrounds)
           urls == IF x.ok THEN x.val ELSE {}
       IN /\ html_urls' = urls
          /\ html_todo' = urls
          /\ html_attempted' = {}
          /\ IF ~x.ok THEN html_pc' = "done" /\ html_result' = x.err
             ELSE IF urls = {} THEN html_pc' = "done" /\ html_result' = "ok"
             ELSE html_pc' = "loop" /\ html_result' = "none"
    /\ UNCHANGED <<html_backgrounds, llm_responses, html_succeeded>>
    /\ UNCHANGED <<dpVars, upVars, fcVars, newsVars, gsVars, vsVars, qdVars, crVars, chainVars, lfVars, llmVars>>

\* lines 63-75: one pass of the loop, for any URL not yet reached
HtmlProcessUrl ==
    /\ html_pc = "loop"
    /\ \E url \in html_todo, outcome \in UrlOutcomes :
          /\ html_attempted' = html_attempted \cup {url}
          /\ html_todo' = html_todo \ {url}
          /\ IF outcome = "response"
             THEN /\ llm_responses' =
                        [u \in DOMAIN llm_responses \cup {url} |->
                            IF u = url THEN Summary(url) ELSE llm_responses[u]]
                  /\ html_succeeded' = html_succeeded \cup {url}
             ELSE UNCHANGED <<llm_responses, html_succeeded>>
          /\ IF outcome \in {"response", "empty"} \/ Survives(outcome)
             THEN IF html_todo' = {}
                  THEN html_pc' = "done" /\ html_result' = "ok"
                  ELSE UNCHANGED <<html_pc, html_result>>
             ELSE html_pc' = "done" /\ html_result' = outcome
    /\ UNCHANGED <<html_backgrounds, html_urls>>
    /\ UNCHANGED <<dpVars, upVars, fcVars, newsVars, gsVars, vsVars, qdVars, crVars, chainVars, lfVars, llmVars>>

HtmlNext ==
    \/ HtmlConstruct
    \/ HtmlRunStart
    \/ HtmlProcessUrl

\* ------------------------------------------------------- QuestionDetails
EmptyDict == MkDict(<<>>)

\* d.get(k, default) of a dict d
GetOr(d, k, default) == IF DictHas(d, StrKey(k)) THEN DictVal(d, StrKey(k)) ELSE default

\* bool(x)
Truthy(x) ==
    CASE x.ty = "None" -> FALSE
      [] x.ty = "str" -> x.s # ""
      [] x.ty \in {"list", "dict"} -> x.items # <<>>
      [] OTHER -> x.n # 0

Value(v) == [ok |-> TRUE, val |-> v]
Error(e) == [ok |-> FALSE, err |-> e]

\* the ISO-8601 texts in play and the datetime each one stands for
IsoTimes ==
    ("2021-10-10T10:10:10" :> [ty |-> "datetime", year |-> 2021, month |-> 10, day |-> 10,
                                 hour |-> 10, minute |-> 10, second |-> 10]) @@
    ("2021-12-13T14:15:16" :> [ty |-> "datetime", year |-> 2021, month |-> 12, day |-> 13,
                                 hour |-> 14, minute |-> 15, second |-> 16])

\* datetime.fromisoformat(x)
fromisoformat(x) ==
    IF x.ty # "str" THEN Error(ErrType)
    ELSE IF x.s \in DOMAIN IsoTimes THEN Value(IsoTimes[x.s])
    ELSE Error(ErrValue)

\* t.strftime("%Y-%m-%d")
Digits == <<"0", "1", "2", "3", "4", "5", "6", "7", "8", "9">>
TwoDigits(n) == Digits[(n \div 10) + 1] \o Digits[(n % 10) + 1]
FourDigits(n) == TwoDigits(n \div 100) \o TwoDigits(n % 100)
strftime(t) == StrVal(FourDigits(t.year) \o "-" \o TwoDigits(t.month) \o "-" \o TwoDigits(t.day))

\* the *_time fields
TimeFields == {"publish_time", "created_time", "close_time", "resolve_time", "last_activity_time"}

\* values a platform record is given for a time field
TimeValues == {None, StrVal(""), StrVal("2021-10-10T10:10:10"), StrVal("soon")}

\* values of community_prediction, of possibilities and of projects
Quartiles == MkDict(<<[k |-> StrKey("q1"), v |-> NumVal(25)], [k |-> StrKey("q2"), v |-> NumVal(50)],
                      [k |-> StrKey("q3"), v |-> NumVal(75)]>>)
CommunityValues ==
    {None, EmptyDict} \cup
    {MkDict(<<[k |-> StrKey("full"), v |-> f]>>) :
        f \in {None, EmptyDict, Quartiles, MkDict(<<[k |-> StrKey("q2"), v |-> NumVal(50)]>>),
               MkDict(<<[k |-> StrKey("q1"), v |-> NumVal(25)]>>)}}
PossibilitiesValues ==
    {None, EmptyDict, MkDict(<<[k |-> StrKey("type"), v |-> StrVal("binary")]>>)}
Project(n) == MkDict(<<[k |-> StrKey("id"), v |-> IntKey(n)]>>)
ProjectsValues ==
    {None, ListVal(<<>>), ListVal(<<Project(1)>>), ListVal(<<Project(1), EmptyDict>>)}

\* created_time and the times after it given together, as the platform
\* gives them for a question that has them
LaterTimes ==
    LET at(f) == [k |-> StrKey(f), v |-> StrVal("2021-10-10T10:10:10")]
    IN {<<at("created_time"), at("close_time")>>,
        <<at("created_time"), at("close_time"), at("resolve_time")>>}

\* the part of a record beyond the required fields: nothing, one optional
\* field with one of its values, or several times
OptionalFields ==
    {<<>>}
    \cup LaterTimes
    \cup {<<[k |-> StrKey(f), v |-> x]>> : f \in TimeFields, x \in TimeValues}
    \cup {<<[k |-> StrKey("community_prediction"), v |-> x]>> : x \in CommunityValues}
    \cup {<<[k |-> StrKey("possibilities"), v |-> x]>> : x \in PossibilitiesValues}
    \cup {<<[k |-> StrKey("projects"), v |-> x]>> : x \in ProjectsValues}

\* the test fixture's value of a required field
ExampleValue(key) ==
    CASE key = "id" -> IntKey(1)
      [] key = "publish_time" -> StrVal("2021-12-13T14:15:16")
      [] OTHER -> TextOf(key, 1)

RECURSIVE PutAll(_, _)
PutAll(items, more) ==
    IF more = <<>> THEN items
    ELSE PutAll(DictPut(items, Head(more).k, Head(more).v), Tail(more))

\* raw records: any of the required fields, with the fixture's values,
\* and the optional part (which may give publish_time another value)
RecordWith(K, optional) ==
    LET Chosen(k) == k \in K
        ks == SelectSeq(RequiredKeys, Chosen)
    IN MkDict(PutAll([i \in 1..Len(ks) |-> [k |-> StrKey(ks[i]), v |-> ExampleValue(ks[i])]],
                     optional))
RawRecords ==
    {RecordWith(K, o) : K \in SUBSET {RequiredKeys[i] : i \in 1..Len(RequiredKeys)}, o \in OptionalFields}

QDInitState ==
    /\ qd_phase = "new"
    /\ qd_details_dict = None
    /\ qd_error = None
    /\ qd_access = None

\* mutant: only the first missing key is reported
missing_keys_FirstOnly(details_dict) ==
    LET Missing(key) == ~DictHas(details_dict, StrKey(key))
        all == SelectSeq(RequiredKeys, Missing)
    IN IF all = <<>> THEN all ELSE <<Head(all)>>

\* lines 22-25: the required keys that are not in details_dict
missing_keys(details_dict) ==
    LET Missing(key) == ~DictHas(details_dict, StrKey(key))
    IN SelectSeq(RequiredKeys, Missing)

\* QuestionDetails(details_dict): __post_init__
QDConstruct ==
    /\ qd_phase = "new"
    /\ \E details_dict \in RawRecords :
          /\ qd_details_dict' = details_dict
          /\ IF missing_keys(details_dict) # <<>>
             THEN /\ qd_phase' = "failed"
                  /\ qd_error' = [err |-> ErrMissingKeys, missing |-> missing_keys(details_dict)]
             ELSE /\ qd_phase' = "built"
                  /\ qd_error' = None
    /\ UNCHANGED qd_access
    /\ UNCHANGED <<dpVars, upVars, fcVars, newsVars, gsVars, vsVars, htmlVars, crVars, chainVars, lfVars, llmVars>>

\* community_quartiles
community_quartiles(details_dict) ==
    LET outer == GetOr(details_dict, "community_prediction", EmptyDict)
    IN IF outer.ty # "dict" THEN Error(ErrAttribute)
       ELSE LET community_prediction == GetOr(outer, "full", EmptyDict)
            IN IF community_prediction.ty # "dict" THEN Error(ErrType)
               ELSE IF DictHas(community_prediction, StrKey("q1"))
               THEN Value(MkDict(<<
                        [k |-> StrKey("quartile1"), v |-> GetOr(community_prediction, "q1", None)],
                        [k |-> StrKey("median"), v |-> GetOr(community_prediction, "q2", None)],
                        [k |-> StrKey("quartile3"), v |-> GetOr(community_prediction, "q3", None)]>>))
               ELSE Value(None)

\* the *_time accessors
time_of(details_dict, field) ==
    LET maybe_time == GetOr(details_dict, field, None)
    IN IF Truthy(maybe_time) THEN fromisoformat(maybe_time) ELSE Value(None)

\* the *_date accessors
date_of(details_dict, field) ==
    LET t == time_of(details_dict, field)
    IN IF ~t.ok THEN t
       ELSE IF t.val # None THEN Value(strftime(t.val)) ELSE Value(None)

\* forecast_type
forecast_type(details_dict) ==
    LET possibilities == GetOr(details_dict, "possibilities", EmptyDict)
    IN IF possibilities.ty # "dict" THEN Error(ErrAttribute)
       ELSE Value(GetOr(possibilities, "type", None))

\* projects
projects(details_dict) == GetOr(details_dict, "projects", None)

\* project_ids
project_ids(details_dict) ==
    LET ps == projects(details_dict)
    IN IF ~Truthy(ps) THEN Value(None)
       ELSE IF ps.ty # "list" \/ \E i \in 1..Len(ps.items) : ps.items[i].ty # "dict"
       THEN Error(ErrAttribute)
       ELSE Value(ListVal([i \in 1..Len(ps.items) |-> GetOr(ps.items[i], "id", None)]))

\* the accessors that read one key of the record
PlainAccessors ==
    ("id" :> "id") @@ ("title" :> "title") @@ ("resolution_criteria" :> "resolution_criteria") @@
    ("background" :> "description") @@ ("active_state" :> "active_state") @@
    ("n_forecasters" :> "number_of_forecasters") @@ ("resolution" :> "resolution") @@
    ("activity" :> "activity") @@ ("comment_count" :> "comment_count")

TimeAccessors == TimeFields
DateAccessors ==
    ("publish_date" :> "publish_time") @@ ("created_date" :> "created_time") @@
    ("close_date" :> "close_time") @@ ("resolve_date" :> "resolve_time") @@
    ("last_activity_date" :> "last_activity_time")

Accessors ==
    DOMAIN PlainAccessors \cup TimeAccessors \cup DOMAIN DateAccessors
    \cup {"fine_print", "community_quartiles", "forecast_type", "projects", "project_ids"}

\* reading the property `name` of a QuestionDetails
Access(name, details_dict) ==
    CASE name \in DOMAIN PlainAccessors -> Value(GetOr(details_dict, PlainAccessors[name], None))
      [] name = "fine_print" -> Value(GetOr(details_dict, "fine_print", StrVal("")))
      [] name \in TimeAccessors -> time_of(details_dict, name)
      [] name \in DOMAIN DateAccessors -> date_of(details_dict, DateAccessors[name])
      [] name = "community_quartiles" -> community_quartiles(details_dict)
      [] name = "forecast_type" -> forecast_type(details_dict)
      [] name = "projects" -> Value(projects(details_dict))
      [] name = "project_ids" -> project_ids(details_dict)

\* a property of a constructed QuestionDetails is read
QDAccess ==
    /\ qd_phase = "built"
    /\ \E name \in Accessors :
          qd_access' = [name |-> name, result |-> Access(name, qd_details_dict)]
    /\ UNCHANGED <<qd_phase, qd_details_dict, qd_error>>
    /\ UNCHANGED <<dpVars, upVars, fcVars, newsVars, gsVars, vsVars, htmlVars, crVars, chainVars, lfVars, llmVars>>

\* t.timestamp() of a naive datetime, the local zone being UTC: the
\* seconds since 1970-01-01
timestamp(t) ==
    LET y == IF t.month <= 2 THEN t.year - 1 ELSE t.year
        era == y \div 400
        yoe == y - era * 400
        mp == (t.month + 9) % 12
        doy == (153 * mp + 2) \div 5 + t.day - 1
        doe == yoe * 365 + yoe \div 4 - yoe \div 100 + doy
        days == era * 146097 + doe - 719468
    IN [ty |-> "float", n |-> days * 86400 + t.hour * 3600 + t.minute * 60 + t.second]

\* qd.<field>.timestamp() if qd.<guard> else None
timestamp_if(details_dict, field, guard) ==
    LET g == time_of(details_dict, guard)
        t == time_of(details_dict, field)
    IN IF ~g.ok THEN g
       ELSE IF g.val = None THEN Value(None)
       ELSE IF ~t.ok THEN t
       ELSE IF t.val = None THEN Error(ErrAttribute)
       ELSE Value(timestamp(t.val))

\* str(x) of None, of an int and of a list of them
RECURSIVE JoinRepr(_)
JoinRepr(items) ==
    LET Repr(x) == IF x = None THEN "None" ELSE IF x.n = 1 THEN "1" ELSE "2"
    IN IF items = <<>> THEN ""
       ELSE IF Len(items) = 1 THEN Repr(items[1])
       ELSE Repr(items[1]) \o ", " \o JoinRepr(Tail(items))
StrOf(x) == IF x = None THEN StrVal("None") ELSE StrVal("[" \o JoinRepr(x.items) \o "]")

\* VectorStoreManager._metadata_from_question_details(qd), lines 71-86:
\* the entries in the order the dict display evaluates them; every
\* timestamp is guarded by created_time
MetadataEntries(details_dict) ==
    LET ids == project_ids(details_dict)
    IN << <<"question_id", Value(GetOr(details_dict, "id", None))>>,
          <<"created_date", date_of(details_dict, "created_time")>>,
          <<"publish_date", date_of(details_dict, "publish_time")>>,
          <<"close_date", date_of(details_dict, "close_time")>>,
          <<"resolve_date", date_of(details_dict, "resolve_time")>>,
          <<"created_timestamp", timestamp_if(details_dict, "created_time", "created_time")>>,
          <<"publish_timestamp", timestamp_if(details_dict, "publish_time", "created_time")>>,
          <<"close_timestamp", timestamp_if(details_dict, "close_time", "created_time")>>,
          <<"resolve_timestamp", timestamp_if(details_dict, "resolve_time", "created_time")>>,
          <<"resolve_timestamp", timestamp_if(details_dict, "resolve_time", "created_time")>>,
          <<"last_activity_date", date_of(details_dict, "last_activity_time")>>,
          <<"forecast_type", forecast_type(details_dict)>>,
          <<"project_ids", IF ids.ok THEN Value(StrOf(ids.val)) ELSE ids>> >>

_metadata_from_question_details(details_dict) ==
    LET entries == MetadataEntries(details_dict)
        Fails(i) == ~entries[i][2].ok
    IN IF \E i \in 1..Len(entries) : Fails(i)
       THEN entries[CHOOSE i \in 1..Len(entries) : Fails(i) /\ \A j \in 1..(i - 1) : ~Fails(j)][2]
       ELSE Value(MkDict(PutAll(<<>>, [i \in 1..Len(entries) |->
                                         [k |-> StrKey(entries[i][1]), v |-> entries[i][2].val]])))

\* the index metadata of a constructed QuestionDetails is built
QDMetadata ==
    /\ qd_phase = "built"
    /\ qd_access' = [name |-> "_metadata_from_question_details",
                     result |-> _metadata_from_question_details(qd_details_dict)]
    /\ UNCHANGED <<qd_phase, qd_details_dict, qd_error>>
    /\ UNCHANGED <<dpVars, upVars, fcVars, newsVars, gsVars, vsVars, htmlVars, crVars, chainVars, lfVars, llmVars>>

QDNext ==
    \/ QDConstruct
    \/ QDAccess
    \/ QDMetadata

\* ---------------------------------------------------- CompletionResponse
\* x.get(k): of a dict the value or None, of anything else AttributeError
DotGet(x, k) == IF x.ty = "dict" THEN Value(GetOr(x, k, None)) ELSE Error(ErrAttribute)

\* try: ... except: return None
OrNone(r) == IF r.ok THEN r ELSE Value(None)

\* the fixture's message, and the first choices a payload can carry
Message == MkDict(<<[k |-> StrKey("role"), v |-> StrVal("assistant")],
                    [k |-> StrKey("content"), v |-> StrVal("...Here comes a lot of text...")]>>)
Choices ==
    {EmptyDict,
     MkDict(<<[k |-> StrKey("message"), v |-> None]>>),
     MkDict(<<[k |-> StrKey("message"), v |-> EmptyDict], [k |-> StrKey("finish_reason"), v |-> StrVal("stop")]>>),
     MkDict(<<[k |-> StrKey("message"), v |-> Message], [k |-> StrKey("finish_reason"), v |-> StrVal("stop")]>>),
     MkDict(<<[k |-> StrKey("message"), v |-> Message]>>)}

\* values of "choices": null, a list of choices, or JSON of another shape
ChoicesValues ==
    {None, ListVal(<<>>), IntKey(5), MkDict(<<[k |-> StrKey("message"), v |-> Message]>>)}
    \cup {ListVal(<<c>>) : c \in Choices}

\* values of "usage": null, or a mapping with any of the three counts
TokenKeys == <<"prompt_tokens", "completion_tokens", "total_tokens">>
TokenCount(key) ==
    CASE key = "prompt_tokens" -> IntKey(863)
      [] key = "completion_tokens" -> IntKey(398)
      [] key = "total_tokens" -> IntKey(1261)
UsageWith(K) ==
    LET Chosen(k) == k \in K
        ks == SelectSeq(TokenKeys, Chosen)
    IN MkDict([i \in 1..Len(ks) |-> [k |-> StrKey(ks[i]), v |-> TokenCount(ks[i])]])
UsageValues == {None} \cup {UsageWith(K) : K \in SUBSET {TokenKeys[i] : i \in 1..Len(TokenKeys)}}

\* payloads: a mapping with or without "choices" and "usage"
Payloads ==
    {MkDict(c \o u) :
        c \in {<<>>} \cup {<<[k |-> StrKey("choices"), v |-> x]>> : x \in ChoicesValues},
        u \in {<<>>} \cup {<<[k |-> StrKey("usage"), v |-> x]>> : x \in UsageValues}}

CRInitState ==
    /\ cr_phase = "new"
    /\ cr_response_json = None
    /\ cr_access = None

\* CompletionResponse(response_json)
CRConstruct ==
    /\ cr_phase = "new"
    /\ cr_phase' = "built"
    /\ cr_response_json' \in Payloads
    /\ UNCHANGED cr_access
    /\ UNCHANGED <<dpVars, upVars, fcVars, newsVars, gsVars, vsVars, htmlVars, qdVars, chainVars, lfVars, llmVars>>

\* first_choice: no try around it
first_choice(response_json) ==
    LET maybe_choices == GetOr(response_json, "choices", None)
    IN IF maybe_choices = None THEN Value(None)
       ELSE IF maybe_choices.ty \notin {"list", "dict", "str"} THEN Error(ErrType)
       ELSE IF maybe_choices.ty = "list"
            THEN IF Len(maybe_choices.items) > 0 THEN Value(maybe_choices.items[1]) ELSE Value(None)
       ELSE IF maybe_choices.ty = "dict"
            THEN IF Len(maybe_choices.items) > 0
                 THEN IF DictHas(maybe_choices, IntKey(0)) THEN Value(DictVal(maybe_choices, IntKey(0)))
                      ELSE Error(ErrKey)
                 ELSE Value(None)
       ELSE IF maybe_choices.s # "" THEN Value(StrVal("first character")) ELSE Value(None)

\* content
response_content(response_json) ==
    LET choice == first_choice(response_json)
        message == IF choice.ok THEN DotGet(choice.val, "message") ELSE choice
    IN OrNone(IF message.ok THEN DotGet(message.val, "content") ELSE message)

\* finish_reason
finish_reason(response_json) ==
    LET choice == first_choice(response_json)
    IN OrNone(IF choice.ok THEN DotGet(choice.val, "finish_reason") ELSE choice)

\* prompt_tokens, completion_tokens, total_tokens
tokens(response_json, key) == OrNone(DotGet(GetOr(response_json, "usage", None), key))

\* str(x) in an f-string
IntText == (863 :> "863") @@ (398 :> "398") @@ (1261 :> "1261")
Str(x) == IF x = None THEN "None" ELSE IntText[x.n]

\* tokens_all
tokens_all(response_json) ==
    StrVal(Str(tokens(response_json, "prompt_tokens").val) \o ", " \o
           Str(tokens(response_json, "completion_tokens").val) \o ", " \o
           Str(tokens(response_json, "total_tokens").val))

CRAccessors ==
    {"first_choice", "content", "finish_reason", "prompt_tokens", "completion_tokens",
     "total_tokens", "tokens_all"}

\* reading the property `name` of a CompletionResponse
CRRead(name, response_json) ==
    CASE name = "first_choice" -> first_choice(response_json)
      [] name = "content" -> response_content(response_json)
      [] name = "finish_reason" -> finish_reason(response_json)
      [] name = "tokens_all" -> Value(tokens_all(response_json))
      [] OTHER -> tokens(response_json, name)

\* a property of a CompletionResponse is read
CRAccess ==
    /\ cr_phase = "built"
    /\ \E name \in CRAccessors :
          cr_access' = [name |-> name, result |-> CRRead(name, cr_response_json)]
    /\ UNCHANGED <<cr_phase, cr_response_json>>
    /\ UNCHANGED <<dpVars, upVars, fcVars, newsVars, gsVars, vsVars, htmlVars, qdVars, chainVars, lfVars, llmVars>>

CRNext ==
    \/ CRConstruct
    \/ CRAccess

\* ------------------------------------------------------------- chain_full
\* lines 408-416: the keys the steps of chain_full assign, in order
Steps ==
    <<"output_instructions", "news_insights", "preliminar_assessment", "baseline_prediction",
      "check_predictions_implications", "final_forecast", "json_output">>

\* mutant: the historical-frequency check is left out
NextStep_SkipsCheck(key) ==
    IF key = "baseline_prediction" THEN "final_forecast"
    ELSE IF key = Steps[Len(Steps)] THEN "done"
    ELSE Steps[(CHOOSE i \in 1..Len(Steps) : Steps[i] = key) + 1]

\* the step after the one that assigns key
NextStep(key) ==
    IF key = Steps[Len(Steps)] THEN "done"
    ELSE Steps[(CHOOSE i \in 1..Len(Steps) : Steps[i] = key) + 1]

\* lines 377-398: the chain a step runs, by the key it assigns
ChainOf(key) ==
    CASE key = "preliminar_assessment" -> "chain_preliminar_assessment"
      [] key = "baseline_prediction" -> "chain_baseline_and_prediction_scenario"
      [] key = "check_predictions_implications" -> "chain_check_predictions_implications"
      [] key = "final_forecast" -> "chain_review_and_refine"
      [] key = "json_output" -> "chain_json_output"

\* lines 124-352: the variables of each chain's prompt (system_str, which
\* every prompt starts with, reads question_details)
PromptVars(chain) ==
    {"question_details"} \cup
    CASE chain = "chain_extract_info_from_news" -> {"today", "news_articles"}
      [] chain = "chain_preliminar_assessment" -> {"news_insights", "today"}
      [] chain = "chain_baseline_and_prediction_scenario" -> {"preliminar_assessment"}
      [] chain = "chain_check_predictions_implications" ->
            {"preliminar_assessment", "baseline_prediction", "today"}
      [] chain = "chain_review_and_refine" ->
            {"preliminar_assessment", "baseline_prediction", "check_predictions_implications"}
      [] chain = "chain_json_output" -> {"final_forecast", "output_instructions"}

\* the news_object of the input: none, an AskNewsFetcher without articles
\* or with them, or something that is no AskNewsFetcher
NewsObjects ==
    {None, [ty |-> "str", s |-> "news"],
     [ty |-> "AskNewsFetcher", hot |-> None, historical |-> None],
     [ty |-> "AskNewsFetcher", hot |-> SearchResponse("latest news", 1), historical |-> None],
     [ty |-> "AskNewsFetcher", hot |-> SearchResponse("latest news", 1),
      historical |-> SearchResponse("news knowledge", 1)]}

\* the input of invoke(): the question details, the date, the news object
ChainInputs ==
    {[question_details |-> TextOf("question_details", 0), today |-> StrVal("2024-07-01"),
      news_object |-> n] : n \in NewsObjects}

\* the texts a model can answer a prompt with, and what a call can come to
Drafts == {"a", "b"}
ModelText(chain, draft) == [ty |-> "model_text", chain |-> chain, draft |-> draft]
CallOutcomes == Drafts \cup {ErrHTTP}

NoNewsProvided == StrVal("No news provided.")

\* RunnablePassthrough.assign(key=...): the mapping with key set to v
Assign(values, key, v) ==
    [k \in DOMAIN values \cup {key} |-> IF k = key THEN v ELSE values[k]]

\* the prompt of a chain filled in from the mapping: [ok, val | err]
FillPrompt(chain, values) ==
    IF PromptVars(chain) \subseteq DOMAIN values
    THEN [ok |-> TRUE, val |-> [k \in PromptVars(chain) |-> values[k]]]
    ELSE [ok |-> FALSE, err |-> ErrKey]

ChainInitState ==
    /\ chain_pc = "new"
    /\ chain_values = <<>>
    /\ chain_calls = <<>>
    /\ chain_result = "none"

ChainRaises(err) ==
    /\ chain_pc' = "done"
    /\ chain_result' = err
    /\ UNCHANGED <<chain_values, chain_calls>>

\* chain_full.invoke(input), line 409: output_instructions is assigned
ChainInvoke ==
    /\ chain_pc = "new"
    /\ \E input \in ChainInputs :
          chain_values' = Assign(input, "output_instructions", StrVal("output_instructions"))
    /\ chain_pc' = NextStep("output_instructions")
    /\ UNCHANGED <<chain_calls, chain_result>>
    /\ UNCHANGED <<dpVars, upVars, fcVars, newsVars, gsVars, vsVars, htmlVars, qdVars, crVars, lfVars, llmVars>>

\* lines 380-388, news_route_function: is the extraction chain chosen?
RoutesToExtraction(maybe_news) == maybe_news # None /\ maybe_news.ty = "AskNewsFetcher"

\* line 410 with lines 380-389: the route is chosen and run on the mapping;
\* what it returns, the mapping with news_insights (and news_articles)
\* assigned, is what line 410 assigns to news_insights
ChainNewsRoute ==
    /\ chain_pc = "news_insights"
    /\ LET maybe_news == chain_values.news_object
       IN IF RoutesToExtraction(maybe_news)
          THEN LET news_str == NewsStr(make_news_str(maybe_news.hot, maybe_news.historical))
                   with_articles == Assign(chain_values, "news_articles", news_str)
                   prompt == FillPrompt("chain_extract_info_from_news", with_articles)
               IN IF ~prompt.ok THEN ChainRaises(prompt.err)
                  ELSE \E out \in CallOutcomes :
                       IF out = ErrHTTP THEN ChainRaises(ErrHTTP)
                       ELSE LET text == ModelText("chain_extract_info_from_news", out)
                                routed == Assign(with_articles, "news_insights", text)
                            IN /\ chain_calls' = Append(chain_calls,
                                     [chain |-> "chain_extract_info_from_news",
                                      prompt |-> prompt.val, output |-> text])
                               /\ chain_values' = Assign(chain_values, "news_insights", routed)
                               /\ chain_pc' = NextStep("news_insights")
                               /\ UNCHANGED chain_result
          ELSE LET routed == Assign(chain_values, "news_insights", NoNewsProvided)
               IN /\ chain_values' = Assign(chain_values, "news_insights", routed)
                  /\ chain_pc' = NextStep("news_insights")
                  /\ UNCHANGED <<chain_calls, chain_result>>
    /\ UNCHANGED <<dpVars, upVars, fcVars, newsVars, gsVars, vsVars, htmlVars, qdVars, crVars, lfVars, llmVars>>

\* lines 411-415: one step, a prompt filled in from the mapping, the model
\* call, the answer assigned to the step's key; the last step parses the
\* answer as JSON
ChainStep ==
    /\ chain_pc \in {"preliminar_assessment", "baseline_prediction",
                     "check_predictions_implications", "final_forecast", "json_output"}
    /\ LET chain == ChainOf(chain_pc)
           prompt == FillPrompt(chain, chain_values)
       IN IF ~prompt.ok THEN ChainRaises(prompt.err)
          ELSE \E out \in CallOutcomes, is_json \in BOOLEAN :
               IF out = ErrHTTP THEN ChainRaises(ErrHTTP)
               ELSE LET text == ModelText(chain, out)
                    IN /\ chain_calls' = Append(chain_calls,
                             [chain |-> chain, prompt |-> prompt.val, output |-> text])
                       /\ IF chain_pc = "json_output" /\ ~is_json
                          THEN /\ chain_pc' = "done"
                               /\ chain_result' = ErrOutputParser
                               /\ UNCHANGED chain_values
                          ELSE /\ chain_values' = Assign(chain_values, chain_pc, text)
                               /\ chain_pc' = NextStep(chain_pc)
                               /\ chain_result' = IF chain_pc' = "done" THEN "ok" ELSE chain_result
    /\ UNCHANGED <<dpVars, upVars, fcVars, newsVars, gsVars, vsVars, htmlVars, qdVars, crVars, lfVars, llmVars>>

ChainNext ==
    \/ ChainInvoke
    \/ ChainNewsRoute
    \/ ChainStep

\* ---------------------------------------------------------- LoggerFactory
\* the names loggers are asked for: those of the Forecaster and of the
\* AskNewsFetcher, and a child of the first
LoggerNames == {"Forecaster", "Forecaster.chain", "NewsFetcher"}

\* the loggers above a logger in the logging module's hierarchy
Ancestors(name) == IF name = "Forecaster.chain" THEN {"Forecaster"} ELSE {}

Levels == {"DEBUG", "INFO"}

LFInitState ==
    /\ lf_phase = "new"
    /\ log_to_console = TRUE
    /\ logs_file = FALSE
    /\ log_level = "INFO"
    /\ root_handlers = FALSE
    /\ lf_handlers = [n \in LoggerNames |-> <<>>]
    /\ lf_levels = [n \in LoggerNames |-> "NOTSET"]
    /\ lf_calls = 0
    /\ lf_last = Called("none", "ok")

\* LoggerFactory(log_level, log_to_console, logs_file_dir, logs_file_name),
\* in a process whose root logger has a handler or has none
LFConstruct ==
    /\ lf_phase = "new"
    /\ lf_phase' = "live"
    /\ log_to_console' \in BOOLEAN
    /\ logs_file' \in BOOLEAN
    /\ log_level' \in Levels
    /\ root_handlers' \in BOOLEAN
    /\ lf_last' = Called("__init__", "ok")
    /\ UNCHANGED <<lf_handlers, lf_levels, lf_calls>>
    /\ UNCHANGED <<dpVars, upVars, fcVars, newsVars, gsVars, vsVars, htmlVars, qdVars, crVars,
                   chainVars, llmVars>>

\* mutant: the logger is always taken to have no handler
hasHandlers_Never(name, handlers, root) == FALSE

\* Logger.hasHandlers(): a handler on the logger, on a logger above it, or
\* on the root logger
hasHandlers(name, handlers, root) ==
    \/ handlers[name] # <<>>
    \/ \E a \in Ancestors(name) : handlers[a] # <<>>
    \/ root

\* make_logger(name, level), lines 36-62: opening the log file can fail,
\* after the console handler was attached
LFMakeLogger ==
    /\ lf_phase = "live"
    /\ lf_calls < MaxLoggerCalls
    /\ lf_calls' = lf_calls + 1
    /\ \E name \in LoggerNames, level \in Levels \cup {"None"}, file_opens \in BOOLEAN :
          LET adds == ~hasHandlers(name, lf_handlers, root_handlers)
              console == IF adds /\ log_to_console THEN <<"console">> ELSE <<>>
              raises == adds /\ logs_file /\ ~file_opens
              file == IF adds /\ logs_file /\ file_opens THEN <<"file">> ELSE <<>>
          IN /\ lf_handlers' = [lf_handlers EXCEPT ![name] = @ \o console \o file]
             /\ lf_levels' =
                   IF raises THEN lf_levels
                   ELSE [lf_levels EXCEPT ![name] = IF level # "None" THEN level ELSE log_level]
             /\ lf_last' = Called("make_logger", IF raises THEN ErrOS ELSE "ok")
    /\ UNCHANGED <<lf_phase, log_to_console, logs_file, log_level, root_handlers>>
    /\ UNCHANGED <<dpVars, upVars, fcVars, newsVars, gsVars, vsVars, htmlVars, qdVars, crVars,
                   chainVars, llmVars>>

LFNext ==
    \/ LFConstruct
    \/ LFMakeLogger

\* -------------------------------------------- make_proxied_ChatOpenAI_LLM
Tokens == {StrVal("token-A"), StrVal("token-B"), StrVal("token-C")}
Models == {StrVal("gpt-4o"), StrVal("gpt-4o-mini"), StrVal("o1")}

LLMInitState ==
    /\ llm_phase = "new"
    /\ METACULUS_TOKEN = None
    /\ OPENAI_MODEL = None
    /\ llm_args = None
    /\ llm_client = None

\* src.config is imported: the token is set (config.py lines 13-14 raise
\* otherwise), the default model is what the environment gives
LLMConfigure ==
    /\ llm_phase = "new"
    /\ llm_phase' = "configured"
    /\ METACULUS_TOKEN' \in Tokens
    /\ OPENAI_MODEL' \in Models \cup {None}
    /\ UNCHANGED <<llm_args, llm_client>>
    /\ UNCHANGED <<dpVars, upVars, fcVars, newsVars, gsVars, vsVars, htmlVars, qdVars, crVars,
                   chainVars, lfVars>>

\* f"Token {token}"
TokenHeader(token) == [scheme |-> "Token", token |-> token]

\* make_proxied_ChatOpenAI_LLM(model, metaculus_token, **kwargs), lines
\* 81-97, under the configuration (config_token, config_model)
make_proxied_ChatOpenAI_LLM(model, metaculus_token, kwargs, config_token, config_model) ==
    LET model_used == IF model = None THEN config_model ELSE model
        token_used == IF metaculus_token = None THEN config_token ELSE metaculus_token
        headers == [content_type |-> "application/json",
                    authorization |-> TokenHeader(config_token)]
    IN [ty |-> "ChatOpenAI", model |-> model_used,
        base_url |-> "https://www.metaculus.com/proxy/openai/v1",
        default_headers |-> headers, kwargs |-> kwargs]

\* a call of make_proxied_ChatOpenAI_LLM
LLMMake ==
    /\ llm_phase = "configured"
    /\ \E model \in Models \cup {None}, metaculus_token \in Tokens \cup {None},
          kwargs \in {<<>>, [temperature |-> 10]} :
          /\ llm_args' = [model |-> model, metaculus_token |-> metaculus_token, kwargs |-> kwargs]
          /\ llm_client' = make_proxied_ChatOpenAI_LLM(model, metaculus_token, kwargs,
                                                       METACULUS_TOKEN, OPENAI_MODEL)
    /\ UNCHANGED <<llm_phase, METACULUS_TOKEN, OPENAI_MODEL>>
    /\ UNCHANGED <<dpVars, upVars, fcVars, newsVars, gsVars, vsVars, htmlVars, qdVars, crVars,
                   chainVars, lfVars>>

LLMNext ==
    \/ LLMConfigure
    \/ LLMMake

\* ---- the DetailsPreparation a Forecaster is built on
AllDetails == [q \in QuestionIds |-> RawDetails(q)]

\* a unification output with the four mandatory keys
FullUnification ==
    Text(<<LB>> \o UnifiedPairs(MandatoryKeys) \o <<RB>>)

\* lists without repeated ids
DistinctIdLists == {l \in IdLists(MaxIds) : l # <<>> /\ \A i, j \in 1..Len(l) : l[i] = l[j] => i = j}

\* the preparator right after DetailsPreparation(ids, AllDetails)
DPConstructed(ids) ==
    /\ dp_phase = "live"
    /\ dp_arg = ListArg(ids)
    /\ question_ids = ids
    /\ question_details_dict = AllDetails
    /\ unification_response = None
    /\ unified_details = InitialUnifiedDetails(ids, AllDetails)
    /\ dp_last = Called("__init__", "ok")
    /\ dp_ret = None
    /\ dp_model_calls = 0
    /\ dp_gets = 0

\* the same preparator after a unification request answered in full
DPUnified(ids) ==
    /\ dp_phase = "live"
    /\ dp_arg = ListArg(ids)
    /\ question_ids = ids
    /\ question_details_dict = AllDetails
    /\ unification_response = Response(FullUnification)
    /\ unified_details = ParseUnification(FullUnification).val
    /\ dp_last = FetchUnifOk
    /\ dp_ret = None
    /\ dp_model_calls = 1
    /\ dp_gets = 0

\* an AskNewsFetcher after a fetch_articles() that filled both slots
NewsWithArticles ==
    /\ news_phase = "live"
    /\ query = "Covid-19"
    /\ n_hot_articles = DefaultHotArticles
    /\ n_historical_articles = DefaultHistoricalArticles
    /\ hot_response = SearchResponse("latest news", 1)
    /\ historical_response = SearchResponse("news knowledge", 1)
    /\ news_last = Called("fetch_articles", "ok")
    /\ news_ret = <<>>
    /\ hot_searches = 1
    /\ historical_searches = 1

\* a Forecaster's starting point: a preparator over one or two questions,
\* unified or not yet, and no AskNewsFetcher or one with its articles
FCInit ==
    /\ UpInitState /\ FCInitState /\ GSInitState /\ VSInitState
    /\ NewsInitState \/ NewsWithArticles
    /\ HtmlInitState /\ QDInitState /\ CRInitState /\ ChainInitState
    /\ LFInitState /\ LLMInitState
    /\ \E ids \in DistinctIdLists :
          \/ DPConstructed(ids)
          \/ Len(ids) > 1 /\ DPUnified(ids)

\* ------------------------------------------------------- specifications
Init == DPInitState /\ UpInitState /\ FCInitState /\ NewsInitState /\ GSInitState /\ VSInitState
    /\ HtmlInitState /\ QDInitState /\ CRInitState /\ ChainInitState
    /\ LFInitState /\ LLMInitState

Next == DPNext \/ UpNext \/ NewsNext \/ FCNext \/ GSNext \/ VSNext \/ HtmlNext \/ QDNext \/ CRNext \/ ChainNext \/ LFNext \/ LLMNext

Spec == Init /\ [][Next]_vars

\* a DetailsPreparation on its own
SpecDP == Init /\ [][DPNext]_vars

\* one upload_predictions call
SpecUpload == Init /\ [][UpNext]_vars

\* an AskNewsFetcher on its own
SpecNews == Init /\ [][NewsNext]_vars

\* a Forecaster on a constructed DetailsPreparation
SpecFC == FCInit /\ [][FCNext]_vars

\* a GroupSeparator on its own
SpecGS == Init /\ [][GSNext]_vars

\* one update_store call of a VectorStoreManager, on a platform that
\* publishes questions meanwhile
SpecVS == Init /\ [][VSNext]_vars

\* the same, with update_store running on: a pass of its loop that can be
\* made is eventually made
SpecVSFair == SpecVS /\ WF_vars(VSPage)

\* an HtmlContentProcessor and its run() calls
SpecHtml == Init /\ [][HtmlNext]_vars

\* a QuestionDetails: its construction and the reads of its properties
SpecQD == Init /\ [][QDNext]_vars

\* a CompletionResponse and the reads of its properties
SpecCR == Init /\ [][CRNext]_vars

\* one invoke() of chain_full
SpecChain == Init /\ [][ChainNext]_vars

\* a LoggerFactory and its make_logger calls
SpecLF == Init /\ [][LFNext]_vars

\* the configuration and the clients built under it
SpecLLM == Init /\ [][LLMNext]_vars

\* ============================================================== properties
\* the documented error kinds, as the sets of errors the code raises for them
InvalidInput == {ErrNotIterable, ErrAssertRange}
InvalidFormat == {ErrUnifParse, ErrForecastParse, ErrGroupParse}
InvalidState == {ErrNotUnified}

\* ======================================================== DetailsPreparation
SingleQuestion == dp_phase = "live" /\ Len(question_ids) = 1
MultiQuestion == dp_phase = "live" /\ Len(question_ids) > 1

\* C1 -- with exactly one question id, unified_details is that question's
\* raw record from construction onward and the object never sends a
\* completion request; with more than one id, unified_details is absent
\* after construction and becomes present only in a step in which
\* fetch_detail_unification_response returns without error.
C1_SingleImmediate_MultiAfterFetch ==
    /\ [](SingleQuestion =>
            /\ unified_details = question_details_dict[question_ids[1]]
            /\ dp_model_calls = 0)
    /\ [][(dp_phase' = "live" /\ Len(question_ids') > 1 /\ unified_details' # None)
            => /\ dp_phase = "live"
               /\ (unified_details = None => dp_last' = FetchUnifOk)]_vars

\* C1 witness: a two-question object whose second unification request
\* succeeded after the first one failed
C1_Witness ==
    /\ MultiQuestion
    /\ unified_details # None
    /\ dp_model_calls = 2
    /\ dp_last = FetchUnifOk

\* C6 -- make_details_str fails with InvalidState and returns nothing while
\* unified_details is absent, and returns the rendered string once
\* unified_details is present.
C6_MakeDetailsStr ==
    (dp_last.op = "make_details_str" /\ Len(question_ids) > 0) =>
        IF unified_details = None
        THEN dp_last.result \in InvalidState /\ dp_ret = None
        ELSE dp_last.result = "ok" /\ dp_ret # None

\* C7 -- constructing with a question_ids that is not iterable, or empty,
\* fails with InvalidInput before any network call.
C7_RejectsNonIterableAndEmpty ==
    (dp_phase # "new" /\ (~dp_arg.iterable \/ dp_arg.list = <<>>)) =>
        /\ dp_phase = "dead"
        /\ dp_last.result \in InvalidInput
        /\ dp_gets = 0

\* C8 -- whenever fetch_detail_unification_response returns without error
\* in the multi-question case, unified_details has the four required keys
\* and a following make_details_str succeeds.
C8_UnifiedHasRequiredKeys ==
    (MultiQuestion /\ dp_last = FetchUnifOk) =>
        /\ unified_details.ty = "dict"
        /\ \A k \in MandatoryKeys : DictHas(unified_details, StrKey(k))
        /\ make_details_str(question_ids, question_details_dict, unified_details).ok

\* ======================================================== upload_predictions
OutOfRange(p) == p < 0 \/ p > 100
ListedIds == {up_args.ids[i] : i \in 1..Len(up_args.ids)}
ListedOutOfRange ==
    \E q \in ListedIds : q \in DOMAIN up_args.probs /\ OutOfRange(up_args.probs[q])

AnyOutOfRange == \E q \in DOMAIN up_args.probs : OutOfRange(up_args.probs[q])

\* C2 as stated -- a call whose probabilities mapping holds a probability
\* outside [0, 1] fails with InvalidInput and posts nothing.
C2_OutOfRangeIsInvalidInput ==
    (up_pc # "idle" /\ AnyOutOfRange) =>
        /\ up_pc = "done"
        /\ up_result \in InvalidInput
        /\ up_posts = <<>>

\* C2 amended -- a call with a probability outside [0, 1] for a listed
\* question issues no HTTP request and fails: with InvalidInput when every
\* listed id has a probability, with the missing-key error otherwise.
C2_OutOfRangeFailsBeforeAnyPost ==
    (up_pc # "idle" /\ ListedOutOfRange) =>
        /\ up_pc = "done"
        /\ up_posts = <<>>
        /\ up_result = IF ListedIds \subseteq DOMAIN up_args.probs
                       THEN ErrAssertRange ELSE ErrKey

\* C2 witness: two listed questions with summaries, the second one's
\* probability out of range, refused by the range check
C2_Witness ==
    /\ up_pc = "done"
    /\ up_result = ErrAssertRange
    /\ up_args.sums.given
    /\ Len(up_args.ids) = 2
    /\ ~OutOfRange(up_args.probs[up_args.ids[1]])
    /\ OutOfRange(up_args.probs[up_args.ids[2]])

\* the j-th POST of a complete upload: prediction then comment for each
\* listed id in list order, comments only with a summaries mapping
ExpectedPost(j) ==
    IF up_args.sums.given
    THEN LET q == up_args.ids[(j + 1) \div 2]
         IN IF j % 2 = 1
            THEN [kind |-> "prediction", id |-> q, payload |-> up_args.probs[q]]
            ELSE [kind |-> "comment", id |-> q, payload |-> up_args.sums.map[q]]
    ELSE LET q == up_args.ids[j]
         IN [kind |-> "prediction", id |-> q, payload |-> up_args.probs[q]]

ExpectedLength ==
    IF up_args.sums.given THEN 2 * Len(up_args.ids) ELSE Len(up_args.ids)

\* C3 -- whatever POSTs fail, the POSTs issued are a prefix of
\* [prediction(id1), comment(id1), prediction(id2), ...] in list order;
\* only the last issued POST can have failed, and then the call has ended.
C3_PostsArePrefixInListOrder ==
    up_pc # "idle" =>
        /\ Len(up_posts) <= ExpectedLength
        /\ \A j \in 1..Len(up_posts) :
              /\ [kind |-> up_posts[j].kind, id |-> up_posts[j].id,
                  payload |-> up_posts[j].payload] = ExpectedPost(j)
              /\ ~up_posts[j].ok =>
                    j = Len(up_posts) /\ up_pc = "done" /\ up_result = ErrHTTP
        /\ (up_pc = "done" /\ up_result = "ok") => Len(up_posts) = ExpectedLength

\* C3 witness: two different questions with summaries; the fourth POST, the
\* second question's comment, failed after three that succeeded
C3_Witness ==
    /\ up_pc = "done"
    /\ up_result = ErrHTTP
    /\ Len(up_posts) = 4
    /\ up_posts[1].id # up_posts[3].id
    /\ up_posts[3].ok
    /\ ~up_posts[4].ok

FetchForecastOk == Called("fetch_forecast_response", "ok")

\* C4 -- once a forecast response is stored, a fetch_forecast_response call
\* returns normally, sends no completion request and leaves the stored
\* response as it is, however many such calls follow.
C4_SecondFetchIsNoOp ==
    [][(forecast_response # None /\ fc_last'.op = "fetch_forecast_response") =>
          /\ fc_last' = FetchForecastOk
          /\ forecast_response' = forecast_response
          /\ fc_model_calls' = fc_model_calls]_vars

\* C4 witness: a fetch that followed the parse of an already fetched
\* response, with one completion request sent in all
C4_Witness ==
    /\ fc_last = FetchForecastOk
    /\ forecast_dict # None
    /\ forecast_response # None
    /\ fc_model_calls = 1

\* what the recovery utility makes of the stored response's text
RecoveredAnswer == try_to_find_and_eval_dict(TrimmedAnswer(forecast_response.content))

\* the recovered value is a dictionary with a forecasts and a summaries mapping
HasBothMappings(rec) ==
    /\ rec.ok
    /\ rec.val.ty = "dict"
    /\ \A name \in {"forecasts", "summaries"} :
          DictHas(rec.val, StrKey(name)) /\ DictVal(rec.val, StrKey(name)).ty = "dict"

PairsUnder(rec, name) == DictVal(rec.val, StrKey(name)).items

AllCoercible(rec) ==
    /\ \A i \in 1..Len(PairsUnder(rec, "forecasts")) :
          /\ PyInt(PairsUnder(rec, "forecasts")[i].k).ok
          /\ PyFloat(PairsUnder(rec, "forecasts")[i].v).ok
    /\ \A i \in 1..Len(PairsUnder(rec, "summaries")) :
          PyInt(PairsUnder(rec, "summaries")[i].k).ok

\* the last pair of the output whose key is the integer n
LastPairFor(pairs, n) ==
    pairs[CHOOSE i \in 1..Len(pairs) :
            /\ PyInt(pairs[i].k).val = n
            /\ \A j \in (i + 1)..Len(pairs) : PyInt(pairs[j].k).val # n]

\* C9 -- parsing a response whose text is recovered as a dictionary with a
\* forecasts and a summaries mapping, all keys integers or decimal strings
\* and all forecast values numbers or numeric strings, stores forecast_dict
\* with exactly the integer keys, each forecast as a float and each summary
\* unchanged; parsing any other text fails with InvalidFormat.
C9_ParseCoercesOrInvalidFormat ==
    (/\ fc_last.op = "parse_forecast_response"
     /\ forecast_response # None
     /\ ~forecast_response.content.none) =>
        IF HasBothMappings(RecoveredAnswer) /\ AllCoercible(RecoveredAnswer)
        THEN LET fin == PairsUnder(RecoveredAnswer, "forecasts")
                 sin == PairsUnder(RecoveredAnswer, "summaries")
                 fout == DictVal(forecast_dict, StrKey("forecasts")).items
                 sout == DictVal(forecast_dict, StrKey("summaries")).items
             IN /\ fc_last.result = "ok"
                /\ DictKeys(forecast_dict) = {StrKey("forecasts"), StrKey("summaries")}
                /\ {fout[i].k : i \in 1..Len(fout)} = {PyInt(fin[i].k).val : i \in 1..Len(fin)}
                /\ {sout[i].k : i \in 1..Len(sout)} = {PyInt(sin[i].k).val : i \in 1..Len(sin)}
                /\ \A i, j \in 1..Len(fout) : fout[i].k = fout[j].k => i = j
                /\ \A i, j \in 1..Len(sout) : sout[i].k = sout[j].k => i = j
                /\ \A i \in 1..Len(fout) :
                      fout[i].v = PyFloat(LastPairFor(fin, fout[i].k).v).val
                /\ \A i \in 1..Len(sout) : sout[i].v = LastPairFor(sin, sout[i].k).v
        ELSE fc_last.result \in InvalidFormat

\* C9 witness: an answer behind the "answer_dictionary" marker with the
\* forecast 1: '0.5' and a summary for '1', stored as 1: 0.5
C9_Witness ==
    /\ fc_last = Called("parse_forecast_response", "ok")
    /\ PyFind(forecast_response.content.text, "answer_dictionary") > 0
    /\ forecast_dict = ForecastDict(<<[k |-> 1, v |-> 50]>>,
                                    <<[k |-> 1, v |-> TextOf("summary", 0)]>>)

\* C10 -- parse_forecast_response before any response was fetched fails
\* with InvalidFormat.
C10_ParseBeforeFetchIsInvalidFormat ==
    (fc_last.op = "parse_forecast_response" /\ forecast_response = None) =>
        fc_last.result \in InvalidFormat

\* C11 -- persist_forecast before any forecast response was fetched fails
\* with InvalidState and leaves the forecast directory as it was.
C11_PersistBeforeFetchIsInvalidState ==
    (fc_last.op = "persist_forecast" /\ forecast_response = None) =>
        /\ fc_last.result \in InvalidState
        /\ fc_files = <<>>

StoredForecasts == DictVal(forecast_dict, StrKey("forecasts")).items

\* C12 -- whenever parse_forecast_response succeeds, every probability in
\* forecast_dict's forecasts mapping lies in [0, 1].
C12_StoredProbabilitiesInUnitInterval ==
    fc_last = Called("parse_forecast_response", "ok") =>
        \A i \in 1..Len(StoredForecasts) :
            0 <= StoredForecasts[i].v /\ StoredForecasts[i].v <= 100

\* ============================================================ GroupSeparator
FetchGroupingOk == Called("fetch_grouping_response", "ok")

\* C13 -- a fetch_grouping_response call on a GroupSeparator that already
\* holds a grouping response returns normally, sends no completion request
\* and changes neither grouping_response nor grouped_questions.
C13_SecondGroupingFetchIsNoOp ==
    [][(grouping_response # None /\ gs_last'.op = "fetch_grouping_response") =>
          /\ gs_last' = FetchGroupingOk
          /\ grouping_response' = grouping_response
          /\ grouped_questions' = grouped_questions
          /\ gs_model_calls' = gs_model_calls]_vars

\* C13 witness: a call that returned normally on an object whose stored
\* response had failed to parse, after one failed request and one answered
C13_Witness ==
    /\ gs_last = FetchGroupingOk
    /\ grouping_response # None
    /\ grouped_questions = None
    /\ gs_model_calls = 2

\* the text is nothing but a dictionary display of label: id-list pairs
IsGroupingDisplay(text) ==
    /\ Len(text) >= 2
    /\ text[1] = LB /\ text[Len(text)] = RB
    /\ \A i \in 2..(Len(text) - 1) :
          text[i].t = "kv" /\ text[i].k.ty = "str" /\ text[i].v.ty = "list"

\* the value the display gives a label: that of its last pair
LastValueFor(text, k) ==
    text[CHOOSE i \in 2..(Len(text) - 1) :
            text[i].k = k /\ \A j \in (i + 1)..(Len(text) - 1) : text[j].k # k].v

\* C14 -- the call that fetches a grouping response stores it; when its
\* content is a dictionary of label to id list, grouped_questions is that
\* dictionary (the labels of the content, each with its id list); when no
\* dictionary can be recovered from the content, the call fails with
\* InvalidFormat.
C14_GroupingStoredOrInvalidFormat ==
    [][(grouping_response = None /\ grouping_response' # None) =>
          LET content == grouping_response'.content
              rec == IF content.none THEN EvalFail
                     ELSE try_to_find_and_eval_dict(content.text)
          IN /\ (~content.none /\ IsGroupingDisplay(content.text)) =>
                   /\ gs_last' = FetchGroupingOk
                   /\ grouped_questions'.ty = "dict"
                   /\ DictKeys(grouped_questions') =
                         {content.text[i].k : i \in 2..(Len(content.text) - 1)}
                   /\ \A k \in DictKeys(grouped_questions') :
                         DictVal(grouped_questions', k) = LastValueFor(content.text, k)
             /\ (~rec.ok \/ rec.val.ty # "dict") =>
                   gs_last'.result \in InvalidFormat]_vars

\* ======================================================== VectorStoreManager
\* the page the next pass of update_store's loop is answered with
NextPage == list_questions(vs_total, current_offset, PageSize)

NullBackground == \E i \in 1..Len(html_backgrounds) : html_backgrounds[i].none

\* C17 -- no failure of a URL ends run(): whatever URLs fail to fetch, to
\* clean or to summarize, a run that got its URLs extracted returns
\* normally after trying every extracted URL, and llm_responses holds an
\* entry for exactly the URLs whose processing succeeded.  (The only error
\* of run() is the one of the extraction itself, before any URL is tried.)
C17_RunSurvivesUrlFailures ==
    /\ html_result \in {"none", "ok", ErrType}
    /\ html_result = ErrType => NullBackground /\ html_attempted = {}
    /\ DOMAIN llm_responses = html_succeeded
    /\ (html_pc = "done" /\ ~NullBackground) =>
          /\ html_result = "ok"
          /\ extract_urls_from_backgrounds(html_backgrounds).val = html_urls
          /\ html_attempted = html_urls

\* C17 witness: a run over two URLs that ended with one of them
\* summarized and the other one failed
C17_Witness ==
    /\ html_pc = "done"
    /\ html_result = "ok"
    /\ Cardinality(html_urls) = 2
    /\ Cardinality(DOMAIN llm_responses) = 1

\* =========================================================== QuestionDetails
RequiredSet == {RequiredKeys[i] : i \in 1..Len(RequiredKeys)}
Lacking == {key \in RequiredSet : ~DictHas(qd_details_dict, StrKey(key))}

\* C18 -- constructing a QuestionDetails from a record that lacks any
\* required field fails with the missing-keys error, and the error names
\* every missing field; a record that has all six is constructed.
C18_ConstructionNamesEveryMissingField ==
    /\ qd_phase = "failed" =>
          /\ Lacking # {}
          /\ qd_error.err = ErrMissingKeys
          /\ {qd_error.missing[i] : i \in 1..Len(qd_error.missing)} = Lacking
    /\ qd_phase = "built" => Lacking = {} /\ qd_error = None

\* C18 witness: a record without title and publish_time was refused, and
\* the error names both
C18_Witness ==
    /\ qd_phase = "failed"
    /\ Lacking = {"title", "publish_time"}
    /\ Len(qd_error.missing) = 2

\* a field that is missing from the mapping d or null in it
Absent(d, k) == GetOr(d, k, None) = None

\* the nested chain the accessor `name` reads is broken in the record
BrokenChain(name, d) ==
    CASE name = "community_quartiles" ->
            \/ Absent(d, "community_prediction")
            \/ /\ GetOr(d, "community_prediction", None).ty = "dict"
               /\ Absent(GetOr(d, "community_prediction", None), "full")
      [] name = "forecast_type" -> Absent(d, "possibilities")
      [] name = "project_ids" -> Absent(d, "projects")
      [] name \in TimeAccessors -> Absent(d, name)
      [] name \in DOMAIN DateAccessors -> Absent(d, DateAccessors[name])
      [] OTHER -> FALSE

\* C20 -- on a constructed QuestionDetails, when community_prediction or
\* its full sub-mapping, possibilities, projects or a time field is
\* missing or null, the accessor that reads it (community_quartiles,
\* forecast_type, project_ids, a *_time or a *_date) does not raise and
\* returns the absent value.
C20_BrokenChainReadsAbsent ==
    (qd_access # None /\ BrokenChain(qd_access.name, qd_details_dict)) =>
        qd_access.result = Value(None)

\* ======================================================== CompletionResponse
\* the part of the payload a token count is read from, or None
UsagePart(key) ==
    LET usage == GetOr(cr_response_json, "usage", None)
    IN IF usage.ty = "dict" THEN GetOr(usage, key, None) ELSE None

\* C19 -- whatever the payload, reading first_choice, content,
\* finish_reason, prompt_tokens, completion_tokens, total_tokens or
\* tokens_all does not raise; first_choice is absent when choices is
\* missing, null or empty, and each token count is what usage holds for
\* it, absent when usage or that count is missing, whatever the other two.
C19_AccessorsNeverRaise ==
    cr_access # None =>
        /\ cr_access.result.ok
        /\ (cr_access.name = "first_choice"
              /\ GetOr(cr_response_json, "choices", None) \in {None, ListVal(<<>>)})
           => cr_access.result.val = None
        /\ cr_access.name \in {TokenKeys[i] : i \in 1..Len(TokenKeys)}
           => cr_access.result.val = UsagePart(cr_access.name)

\* =============================================================== Forecaster
\* the details string the last make_details_str() call returned
LastDetailsStr == dp_ret

CallOrder ==
    <<"chain_extract_info_from_news", "chain_preliminar_assessment",
      "chain_baseline_and_prediction_scenario", "chain_check_predictions_implications",
      "chain_review_and_refine", "chain_json_output">>
Rank(chain) == CHOOSE i \in 1..Len(CallOrder) : CallOrder[i] = chain

\* the prompt variables that carry a stage's output
StageKeys ==
    {"preliminar_assessment", "baseline_prediction", "check_predictions_implications",
     "final_forecast"}

\* the model call of the news-insight extraction, if one was made
ExtractionCalls == {i \in 1..Len(chain_calls) : chain_calls[i].chain = "chain_extract_info_from_news"}

HasFetchedArticles(news_object) ==
    /\ news_object # None
    /\ news_object.ty = "AskNewsFetcher"
    /\ news_object.hot # None \/ news_object.historical # None

\* C23 -- the news-insight extraction call is made if and only if the
\* news object is an AskNewsFetcher with fetched articles; in every other
\* case the news_insights the preliminary assessment's prompt is filled
\* with is exactly the text "No news provided.".
C23_ExtractionIffFetchedArticles ==
    /\ chain_pc \notin {"new", "news_insights"} =>
          (ExtractionCalls # {} <=> HasFetchedArticles(chain_values.news_object))
    /\ \A i \in 1..Len(chain_calls) :
          (chain_calls[i].chain = "chain_preliminar_assessment"
             /\ ~HasFetchedArticles(chain_values.news_object))
          => chain_calls[i].prompt.news_insights = NoNewsProvided

\* ============================================================ LoggerFactory
CountOf(kind, handlers) == Cardinality({i \in 1..Len(handlers) : handlers[i] = kind})

\* C24 -- after any sequence of make_logger calls every logger name has at
\* most one console handler and at most one file handler; a request for a
\* name that has handlers attaches none.
C24_AtMostOneHandlerOfEachKind ==
    /\ \A n \in LoggerNames :
          CountOf("console", lf_handlers[n]) <= 1 /\ CountOf("file", lf_handlers[n]) <= 1
    /\ [][\A n \in LoggerNames : lf_handlers[n] # <<>> => lf_handlers'[n] = lf_handlers[n]]_vars

\* C24 witness: three requests were made and a logger holds its console
\* handler and its file handler
C24_Witness ==
    /\ lf_calls = 3
    /\ \E n \in LoggerNames : lf_handlers[n] = <<"console", "file">>
    /\ \A n \in LoggerNames : lf_handlers[n] \in {<<>>, <<"console", "file">>}
    /\ Cardinality({n \in LoggerNames : lf_handlers[n] # <<>>}) = 1

\* ============================================== make_proxied_ChatOpenAI_LLM
\* C25 -- the client make_proxied_ChatOpenAI_LLM builds has the supplied
\* model when one is supplied and the configuration's default model when
\* not, and its Authorization header carries the supplied token when one
\* is supplied and the configuration's token when not.
C25_SuppliedModelAndTokenAreUsed ==
    llm_client # None =>
        /\ llm_client.model =
              (IF llm_args.model # None THEN llm_args.model ELSE OPENAI_MODEL)
        /\ llm_client.default_headers.authorization =
              TokenHeader(IF llm_args.metaculus_token # None
                          THEN llm_args.metaculus_token ELSE METACULUS_TOKEN)

\* ================================================== Forecaster, question ids
\* C26 -- after fetch_forecast_response and after persist_forecast the
\* preparator's question_ids are in the order the caller gave them, and
\* the question list of the details string names the ids in that order.
C26_ForecasterKeepsIdOrder ==
    fc_last.op \in {"fetch_forecast_response", "persist_forecast"} =>
        /\ question_ids = dp_arg.list
        /\ concatenated_questions_str(question_ids, question_details_dict)
              = concatenated_questions_str(dp_arg.list, question_details_dict)

\* ===================================== GroupSeparator, after a parse failure
GroupParseFailed == Called("fetch_grouping_response", ErrGroupParse)

\* C27 -- a fetch_grouping_response call that raised because the output
\* could not be parsed leaves the response stored and grouped_questions
\* absent; from then on every fetch_grouping_response call sends no
\* completion request, returns normally and leaves both as they are.
C27_ParseFailureIsKept ==
    /\ [](gs_last = GroupParseFailed =>
             grouping_response # None /\ grouped_questions = None)
    /\ [][(grouping_response # None /\ grouped_questions = None) =>
             /\ grouping_response' = grouping_response
             /\ grouped_questions' = None
             /\ gs_model_calls' = gs_model_calls
             /\ gs_last' = Called("fetch_grouping_response", "ok")]_vars

\* C27 witness: a call returned normally on top of the one whose output
\* could not be parsed, the only request sent
C27_Witness ==
    /\ gs_last = Called("fetch_grouping_response", "ok")
    /\ grouping_response # None
    /\ grouped_questions = None
    /\ gs_model_calls = 1

\* ================================ VectorStoreManager, a complete update
\* the index of the running update_store call held the k oldest questions
\* at its start and no question was published since
OldestIndexed ==
    /\ vs_published = 0
    /\ \E k \in 0..vs_total : existing_ids = 1..k

\* the questions the step hands to add_documents
Batch == vs_added' \ vs_added

Timestamps ==
    ("created_timestamp" :> "created_time") @@ ("publish_timestamp" :> "publish_time") @@
    ("close_timestamp" :> "close_time") @@ ("resolve_timestamp" :> "resolve_time")

\* every entry other than the timestamps can be computed for the record
OtherEntriesOk(details_dict) ==
    /\ \A f \in TimeFields : time_of(details_dict, f).ok
    /\ forecast_type(details_dict).ok
    /\ project_ids(details_dict).ok

\* C29 -- building the index metadata of a question does not fail on an
\* absent time: whenever the rest of the record is readable the metadata
\* is built, and each of its four timestamps is absent exactly when the
\* question's own time of that name is absent.
C29_TimestampAbsentIffTimeAbsent ==
    (/\ qd_access # None
     /\ qd_access.name = "_metadata_from_question_details"
     /\ OtherEntriesOk(qd_details_dict)) =>
        /\ qd_access.result.ok
        /\ \A e \in DOMAIN Timestamps :
              (GetOr(qd_access.result.val, e, None) = None)
                 <=> (time_of(qd_details_dict, Timestamps[e]).val = None)

\* ================================================ Forecaster, a failed parse
\* C30 -- a parse_forecast_response call that fails changes neither
\* forecast_dict nor forecast_response: nothing of a mapping that could
\* only partly be coerced is stored.
C30_FailedParseStoresNothing ==
    [][(fc_last'.op = "parse_forecast_response" /\ fc_last'.result # "ok") =>
          (forecast_dict' = forecast_dict /\ forecast_response' = forecast_response)]_vars

\* C30 witness: the parse of a fetched response failed in the try block
C30_Witness ==
    /\ fc_last = Called("parse_forecast_response", ErrForecastParse)
    /\ forecast_response # None
    /\ ~forecast_response.content.none
    /\ forecast_dict = None

====
